---- MODULE Spec2Model ----
(***************************************************************************)
(* Model of the chatbot backend's retrieval-and-resilient-generation        *)
(* pipeline: the request gate (utils/rateLimiter.js), the answer sanitizer  *)
(* and streaming generation (services/gemini.js), and the query             *)
(* orchestrator (services/rag.js).                                          *)
(*                                                                          *)
(* Text is a sequence of characters; a character is a one-element string.   *)
(* CJK characters, which the parser does not accept inside strings, are     *)
(* written as their pinyin ("tui" for the first character of the keyword    *)
(* for "return of goods"), and the full-width brackets as "fw(" and "fw)".  *)
(***************************************************************************)
EXTENDS Integers, Sequences, FiniteSets, TLC

\* utils/rateLimiter.js: the module's state, and each caller of
\* retryWithBackoff (its position, timer, attempt, options and result).
VARIABLES now, activeRequests, lastRequestTime, pc, wake, attempt, options,
          result, calls, prevGrantTime, grantCount

gateVars ==
    <<now, activeRequests, lastRequestTime, pc, wake, attempt, options,
      result, calls, prevGrantTime, grantCount>>

\* services/gemini.js, generateAnswerStream: the increments the provider
\* streams, how many were consumed, the function's locals, the arguments
\* onChunk was called with, the function's position and what it returned.
VARIABLES stream, consumed, buffer, fullText, delivered, streamPc, streamResult

streamVars == <<stream, consumed, buffer, fullText, delivered, streamPc, streamResult>>

\* services/rag.js and services/gemini.js: the knowledge base (originalText,
\* textChunks), whether the provider is configured (genAI), and one
\* processQuery(userQuery) call: its position, its locals, the retry attempt of
\* the remote call it is in, the last error and response of the provider,
\* the calls it has made so far (trace), whether it started the background
\* expansion, the message of the error generateAnswer threw (caught), and what
\* it returned (outcome) or whether it threw.
VARIABLES originalText, textChunks, genAI, userQuery, queryPc, expandedQuery,
          contextText, useFullKnowledgeBase, queryAttempt, lastError, response,
          trace, expansionStarted, outcome, thrown, caught

queryVars ==
    <<originalText, textChunks, genAI, userQuery, queryPc, expandedQuery,
      contextText, useFullKnowledgeBase, queryAttempt, lastError, response,
      trace, expansionStarted, outcome, thrown, caught>>

\* routes/api.js, handleStreamingChat: the handler's position and the events
\* it has written to the response, in order.
VARIABLES chatPc, written

chatVars == <<chatPc, written>>

\* services/rag.js: the knowledge-base file (file), the position of a call
\* of loadKnowledgeBase (loadPc), the calls of updateKnowledgeBase
\* in progress, one for the upload route and one for the background expansion
\* (update), and the expandKnowledgeBaseAsync task (expansion).
VARIABLES file, loadPc, update, expansion

kbVars == <<file, loadPc, update, expansion>>

\* utils/textProcessor.js: the call of one of its functions, with its
\* arguments and its result.
VARIABLES call

textVars == <<call>>

\* The gate's variables that a single request's remote calls leave alone.
gateCallerVars ==
    <<now, pc, wake, attempt, options, result, calls, prevGrantTime, grantCount>>

nonGateVars == <<streamVars, queryVars, chatVars, kbVars, textVars>>

nonStreamVars == <<gateVars, queryVars, chatPc, kbVars, textVars>>

vars == <<gateVars, streamVars, queryVars, chatVars, kbVars, textVars>>

(***************************************************************************)
(* Characters and JavaScript string primitives                              *)
(***************************************************************************)

\* Math.min, Math.max
Min(a, b) == IF a <= b THEN a ELSE b

Max(a, b) == IF a >= b THEN a ELSE b

\* \s of a JavaScript regular expression, restricted to the model's alphabet.
WhiteSpace == {" ", "\n", "\t"}

\* Line terminators, for ^ and $ under the m flag.
LineTerminators == {"\n"}

UpperChars ==
    <<"A", "B", "C", "D", "E", "F", "G", "H", "I", "J", "K", "L", "M",
      "N", "O", "P", "Q", "R", "S", "T", "U", "V", "W", "X", "Y", "Z">>

LowerChars ==
    <<"a", "b", "c", "d", "e", "f", "g", "h", "i", "j", "k", "l", "m",
      "n", "o", "p", "q", "r", "s", "t", "u", "v", "w", "x", "y", "z">>

\* String.prototype.toLowerCase on one character.
LowerChar(c) ==
    IF \E i \in 1..Len(UpperChars) : UpperChars[i] = c
    THEN LowerChars[CHOOSE i \in 1..Len(UpperChars) : UpperChars[i] = c]
    ELSE c

toLowerCase(s) == <<>> \o [i \in 1..Len(s) |-> LowerChar(s[i])]

\* s.slice(from) .. s.slice(from, to) with 1-based inclusive positions.
Slice(s, from, to) ==
    IF from > to THEN <<>> ELSE SubSeq(s, from, to)

\* s.slice(-n): the last n characters.
SliceLast(s, n) == IF Len(s) <= n THEN s ELSE Slice(s, Len(s) - n + 1, Len(s))

RECURSIVE Concat(_)
\* Array.prototype.join('') of a sequence of texts.
Concat(ss) == IF ss = <<>> THEN <<>> ELSE Head(ss) \o Concat(Tail(ss))

\* String.prototype.trim.
TrimStart(s) ==
    IF \A i \in 1..Len(s) : s[i] \in WhiteSpace THEN <<>>
    ELSE Slice(s, CHOOSE i \in 1..Len(s) :
                     /\ s[i] \notin WhiteSpace
                     /\ \A j \in 1..(i - 1) : s[j] \in WhiteSpace, Len(s))

TrimEnd(s) ==
    IF \A i \in 1..Len(s) : s[i] \in WhiteSpace THEN <<>>
    ELSE Slice(s, 1, CHOOSE i \in 1..Len(s) :
                     /\ s[i] \notin WhiteSpace
                     /\ \A j \in (i + 1)..Len(s) : s[j] \in WhiteSpace)

Trim(s) == TrimEnd(TrimStart(s))

\* s.indexOf(w), 1-based; 0 when w does not occur (JavaScript's -1).
StartsAt(s, w, i) ==
    /\ i + Len(w) - 1 <= Len(s)
    /\ \A k \in 1..Len(w) : s[i + k - 1] = w[k]

Includes(s, w) == \E i \in 1..(Len(s) + 1) : StartsAt(s, w, i)

(***************************************************************************)
(* Regular expressions of the source, as sequences of items matched         *)
(* greedily from left to right.  None of the source's patterns needs        *)
(* backtracking: every starred class is followed by a character outside it. *)
(***************************************************************************)
Lit(c) == [t |-> "lit", cs |-> {c}]

Star(cs) == [t |-> "star", cs |-> cs]

Plus(cs) == [t |-> "plus", cs |-> cs]

Opt(cs) == [t |-> "opt", cs |-> cs]

\* \s*\n at the end of a pattern: the white space up to its last newline.
StarThenNewline == [t |-> "starnl", cs |-> WhiteSpace]

Bol == [t |-> "bol", cs |-> {}]

Eol == [t |-> "eol", cs |-> {}]

Lits(s) == [i \in 1..Len(s) |-> Lit(s[i])]

RECURSIVE SkipClass(_, _, _)
SkipClass(s, i, cs) ==
    IF i <= Len(s) /\ s[i] \in cs THEN SkipClass(s, i + 1, cs) ELSE i

RECURSIVE MatchFrom(_, _, _, _)
\* The position after the match of items k.. of p at position i of s under
\* the i flag, or 0 when there is none.
MatchFrom(p, k, s, i) ==
    IF k > Len(p) THEN i
    ELSE LET it == p[k] IN
         CASE it.t = "lit" ->
                IF i <= Len(s) /\ \E c \in it.cs : LowerChar(s[i]) = LowerChar(c)
                THEN MatchFrom(p, k + 1, s, i + 1) ELSE 0
           [] it.t = "star" -> MatchFrom(p, k + 1, s, SkipClass(s, i, it.cs))
           [] it.t = "plus" ->
                IF i <= Len(s) /\ s[i] \in it.cs
                THEN MatchFrom(p, k + 1, s, SkipClass(s, i, it.cs)) ELSE 0
           [] it.t = "opt" ->
                IF i <= Len(s) /\ s[i] \in it.cs
                THEN MatchFrom(p, k + 1, s, i + 1)
                ELSE MatchFrom(p, k + 1, s, i)
           [] it.t = "starnl" ->
                LET e == SkipClass(s, i, it.cs)
                    nls == {j \in i..(e - 1) : s[j] = "\n"}
                IN  IF nls = {} THEN 0
                    ELSE MatchFrom(p, k + 1, s, 1 + CHOOSE j \in nls : \A m \in nls : m <= j)
           [] it.t = "bol" ->
                IF i = 1 \/ s[i - 1] \in LineTerminators
                THEN MatchFrom(p, k + 1, s, i) ELSE 0
           [] it.t = "eol" ->
                IF i > Len(s) \/ s[i] \in LineTerminators
                THEN MatchFrom(p, k + 1, s, i) ELSE 0

\* regex.test(s): some position matches.
RegexTest(s, p) == \E i \in 1..(Len(s) + 1) : MatchFrom(p, 1, s, i) > 0

\* The least element of a set of positions, 0 for the empty set.
Least(S) == IF S = {} THEN 0 ELSE CHOOSE x \in S : \A y \in S : x <= y

\* The greatest element of a set of positions, 0 for the empty set.
Greatest(S) == IF S = {} THEN 0 ELSE CHOOSE x \in S : \A y \in S : y <= x

\* The start of the leftmost match of p in s from position i on, 0 if none.
FirstMatch(s, p, i) == Least({ j \in i..Len(s) : MatchFrom(p, 1, s, j) > j })

\* The start of the leftmost run of n or more characters of cs.
FirstRun(s, cs, n, i) == Least({ j \in i..Len(s) : SkipClass(s, j, cs) - j >= n })

RECURSIVE ReplaceFrom(_, _, _, _)
\* The text from position i on, with the match at j and those after it
\* replaced.
ReplaceAt(s, p, r, i, j) ==
    IF j = 0 THEN Slice(s, i, Len(s))
    ELSE Slice(s, i, j - 1) \o r \o ReplaceFrom(s, p, r, MatchFrom(p, 1, s, j))

ReplaceFrom(s, p, r, i) == ReplaceAt(s, p, r, i, FirstMatch(s, p, i))

\* s.replace(/p/g, r): the leftmost non-overlapping matches, replaced.
ReplaceAll(s, p, r) == ReplaceFrom(s, p, r, 1)

RECURSIVE CollapseFrom(_, _, _, _, _)
CollapseAt(s, cs, n, r, i, j) ==
    IF j = 0 THEN Slice(s, i, Len(s))
    ELSE Slice(s, i, j - 1) \o r \o CollapseFrom(s, cs, n, r, SkipClass(s, j, cs))

CollapseFrom(s, cs, n, r, i) == CollapseAt(s, cs, n, r, i, FirstRun(s, cs, n, i))

\* s.replace(/[cs]{n,}/g, r).
CollapseRuns(s, cs, n, r) == CollapseFrom(s, cs, n, r, 1)

RECURSIVE SplitFrom(_, _, _)
SplitAt(s, p, i, j) ==
    IF j = 0 THEN <<Slice(s, i, Len(s))>>
    ELSE <<Slice(s, i, j - 1)>> \o SplitFrom(s, p, MatchFrom(p, 1, s, j))

SplitFrom(s, p, i) == SplitAt(s, p, i, FirstMatch(s, p, i))

\* s.split(/p/) for a pattern that matches no empty string.
Split(s, p) == SplitFrom(s, p, 1)

RECURSIVE SplitAfterFrom(_, _, _)
SplitAfterAt(s, cs, i, j) ==
    IF j = 0 THEN <<Slice(s, i, Len(s))>>
    ELSE <<Slice(s, i, j)>> \o SplitAfterFrom(s, cs, j + 1)

SplitAfterFrom(s, cs, i) ==
    SplitAfterAt(s, cs, i, Least({ j \in i..(Len(s) - 1) : s[j] \in cs }))

\* s.split(/(?<=[cs])/): s cut after each character of cs.
SplitAfter(s, cs) == SplitAfterFrom(s, cs, 1)

\* s.indexOf(w) as a 0-based position, -1 when w does not occur.
indexOf(s, w) ==
    IF Includes(s, w)
    THEN (CHOOSE i \in 1..(Len(s) + 1) :
            StartsAt(s, w, i) /\ \A j \in 1..(i - 1) : ~StartsAt(s, w, j)) - 1
    ELSE -1

RECURSIVE CountFrom(_, _, _)
CountAt(s, w, j) == IF j = 0 THEN 0 ELSE 1 + CountFrom(s, w, j + Len(w))

CountFrom(s, w, i) == CountAt(s, w, Least({ j \in i..Len(s) : StartsAt(s, w, j) }))

\* (s.match(new RegExp(escaped w, 'g')) || []).length for a non-empty w.
CountMatches(s, w) == CountFrom(s, w, 1)

RECURSIVE Digits(_)
\* String(n) for n >= 0.
Digits(n) ==
    LET d == <<"0", "1", "2", "3", "4", "5", "6", "7", "8", "9">> IN
    IF n < 10 THEN <<d[n + 1]>> ELSE Digits(n \div 10) \o <<d[(n % 10) + 1]>>

(***************************************************************************)
(* services/gemini.js: sanitizeAnswer                                       *)
(***************************************************************************)
MARKER == <<"N", "O", "_", "R", "E", "L", "E", "V", "A", "N", "T", "_", "I", "N", "F", "O">>

NO == <<"N", "O">>

RELEVANT == <<"R", "E", "L", "E", "V", "A", "N", "T">>

INFO == <<"I", "N", "F", "O">>

\* /NO_RELEVANT_INFO/gi
Pattern1 == Lits(MARKER)

\* /NO\s*_\s*RELEVANT\s*_\s*INFO/gi
Pattern2 ==
    Lits(NO) \o <<Star(WhiteSpace), Lit("_"), Star(WhiteSpace)>> \o Lits(RELEVANT)
        \o <<Star(WhiteSpace), Lit("_"), Star(WhiteSpace)>> \o Lits(INFO)

\* /NO\s+RELEVANT\s+INFO/gi
Pattern3 ==
    Lits(NO) \o <<Plus(WhiteSpace)>> \o Lits(RELEVANT) \o <<Plus(WhiteSpace)>> \o Lits(INFO)

\* /NO-RELEVANT-INFO/gi
Pattern4 == Lits(NO) \o <<Lit("-")>> \o Lits(RELEVANT) \o <<Lit("-")>> \o Lits(INFO)

\* /\s*NO_RELEVANT_INFO\s*/gi
Pattern5 == <<Star(WhiteSpace)>> \o Lits(MARKER) \o <<Star(WhiteSpace)>>

\* /^NO_RELEVANT_INFO\s*/gim
Pattern6 == <<Bol>> \o Lits(MARKER) \o <<Star(WhiteSpace)>>

\* /\s*NO_RELEVANT_INFO$/gim
Pattern7 == <<Star(WhiteSpace)>> \o Lits(MARKER) \o <<Eol>>

\* /[\(fw(]?\s*NO_RELEVANT_INFO\s*[\)fw)]?/gi (fw: the full-width bracket)
Pattern8 ==
    <<Opt({"(", "fw("}), Star(WhiteSpace)>> \o Lits(MARKER)
        \o <<Star(WhiteSpace), Opt({")", "fw)"})>>

SanitizePatterns ==
    <<Pattern1, Pattern2, Pattern3, Pattern4, Pattern5, Pattern6, Pattern7, Pattern8>>

RECURSIVE ApplyPatterns(_, _, _)
ApplyPatterns(s, ps, k) ==
    IF s = <<>> \/ k > Len(ps) THEN s
    ELSE ApplyPatterns(ReplaceAll(s, ps[k], <<>>), ps, k + 1)

sanitizeAnswer(answer) ==
    IF answer = <<>> THEN <<>>
    ELSE Trim(CollapseRuns(CollapseRuns(ApplyPatterns(answer, SanitizePatterns, 1),
                                        {"\n"}, 3, <<"\n", "\n">>),
                           {" ", "\t"}, 2, <<" ">>))

(***************************************************************************)
(* utils/textProcessor.js                                                   *)
(***************************************************************************)
\* chunkText's default chunkSize and overlap.
DefaultChunkSize == 1000

DefaultOverlap == 200

\* The sentence terminators of the lookbehind split: the full-width full
\* stop, exclamation mark and question mark, and the newline.
SentenceEnds == {"fw.", "fw!", "fw?", "\n"}

\* /\n\s*\n/
ParagraphBreak == <<Lit("\n"), StarThenNewline>>

RECURSIVE PackSentencesNoFlush(_, _, _, _)
\* The sentence loop without the push of the last chunk after it.
PackSentencesNoFlush(sentences, k, currentChunk, chunkSize) ==
    IF k > Len(sentences) THEN <<>>
    ELSE IF Len(currentChunk \o sentences[k]) <= chunkSize
         THEN PackSentencesNoFlush(sentences, k + 1, currentChunk \o sentences[k], chunkSize)
         ELSE (IF currentChunk # <<>> THEN <<currentChunk>> ELSE <<>>)
                  \o PackSentencesNoFlush(sentences, k + 1, sentences[k], chunkSize)

RECURSIVE PackSentences(_, _, _, _)
\* The sentence loop of chunkText: the texts pushed, before trimming.
PackSentences(sentences, k, currentChunk, chunkSize) ==
    IF k > Len(sentences)
    THEN IF currentChunk # <<>> THEN <<currentChunk>> ELSE <<>>
    ELSE IF Len(currentChunk \o sentences[k]) <= chunkSize
         THEN PackSentences(sentences, k + 1, currentChunk \o sentences[k], chunkSize)
         ELSE (IF currentChunk # <<>> THEN <<currentChunk>> ELSE <<>>)
                  \o PackSentences(sentences, k + 1, sentences[k], chunkSize)

RECURSIVE ParagraphTexts(_, _, _)
\* The paragraph loop of chunkText: the texts pushed, before trimming.
ParagraphTexts(paragraphs, k, chunkSize) ==
    IF k > Len(paragraphs) THEN <<>>
    ELSE (IF Len(paragraphs[k]) <= chunkSize THEN <<paragraphs[k]>>
          ELSE PackSentences(SplitAfter(paragraphs[k], SentenceEnds), 1, <<>>, chunkSize))
             \o ParagraphTexts(paragraphs, k + 1, chunkSize)

RECURSIVE FixedSlices(_, _, _, _)
\* for (let i = 0; i < text.length; i += chunkSize - overlap) text.slice(i, i + chunkSize)
FixedSlices(text, i, chunkSize, overlap) ==
    IF i >= Len(text) THEN <<>>
    ELSE <<Slice(text, i + 1, Min(i + chunkSize, Len(text)))>>
             \o FixedSlices(text, i + (chunkSize - overlap), chunkSize, overlap)

\* chunk => chunk.text.length > 0
NonEmptyChunk(chunk) == Len(chunk.text) > 0

\* The texts pushed, trimmed and numbered, without the empty ones.
NumberedChunks(pushed) ==
    SelectSeq([k \in 1..Len(pushed) |-> [text |-> Trim(pushed[k]), index |-> k - 1]],
              NonEmptyChunk)

\* The fixed slices when the paragraph loop pushed nothing of a long text.
PushedTexts(text, fromParagraphs, chunkSize, overlap) ==
    IF Len(fromParagraphs) = 0 /\ Len(text) > chunkSize
    THEN FixedSlices(text, 0, chunkSize, overlap)
    ELSE fromParagraphs

chunkText(text, chunkSize, overlap) ==
    NumberedChunks(PushedTexts(text, ParagraphTexts(Split(text, ParagraphBreak), 1, chunkSize),
                               chunkSize, overlap))

\* The stop words of calculateRelevanceScore, in the order of the source.
stopWords ==
    << <<"shen2", "me5">>, <<"shi4", "shen2", "me5">>, <<"ru2", "he2">>,
       <<"zen3", "yang4">>, <<"ma5">>, <<"ne5">>, <<"de5">>, <<"le5">>, <<"shi4">>,
       <<"you3">>, <<"zai4">>, <<"yao4">>, <<"ke3", "yi3">>, <<"neng2">>, <<"hui4">>,
       <<"shen2", "me5", "shi4">>, <<"shen2", "me5", "shi2", "hou4">>,
       <<"na3", "li3">>, <<"na3", "ge4">> >>

\* One or more of the full-width comma, full stop, exclamation mark, question
\* mark, enumeration comma, semicolon and colon, and \s.
WordBreak == <<Plus({"fw,", "fw.", "fw!", "fw?", "fw~", "fw;", "fw:"} \cup WhiteSpace)>>

RECURSIVE RemoveStopWords(_, _)
RemoveStopWords(q, k) ==
    IF q = <<>> \/ k > Len(stopWords) THEN q
    ELSE RemoveStopWords(ReplaceAll(q, Lits(stopWords[k]), <<" ">>), k + 1)

\* x.replace(WordBreak, ' ').split(/\s+/)
Words(x) == Split(ReplaceAll(x, WordBreak, <<" ">>), <<Plus(WhiteSpace)>>)

\* word => word.length > 1
LongWord(word) == Len(word) > 1

\* word => word.length > 0
AnyWord(word) == Len(word) > 0

\* The key words, or every word of the query when there is none.
KeptOrAll(kept, queryLower) ==
    IF Len(kept) = 0 THEN SelectSeq(Words(queryLower), AnyWord) ELSE kept

\* The words calculateRelevanceScore scores with.
queryWords(query) ==
    KeptOrAll(SelectSeq(Words(RemoveStopWords(toLowerCase(query), 1)), LongWord),
              toLowerCase(query))

\* The first 100 characters count as the title or the beginning.
TitleWindow == 100

RECURSIVE SumScores(_, _, _)
SumScores(words, k, textLower) ==
    IF k > Len(words) THEN 0
    ELSE (IF Len(words[k]) > 0
          THEN CountMatches(textLower, words[k]) * 2
                   + (IF indexOf(textLower, words[k]) < TitleWindow THEN 3 ELSE 0)
          ELSE 0)
             + SumScores(words, k + 1, textLower)

calculateRelevanceScore(query, text) == SumScores(queryWords(query), 1, toLowerCase(text))

RECURSIVE InsertByScoreUnstable(_, _)
\* x placed before the entries of its score: a sort that is not stable.
InsertByScoreUnstable(sorted, x) ==
    IF sorted = <<>> THEN <<x>>
    ELSE IF Head(sorted).score > x.score
         THEN <<Head(sorted)>> \o InsertByScoreUnstable(Tail(sorted), x)
         ELSE <<x>> \o sorted

RECURSIVE InsertByScore(_, _)
\* x placed after the entries whose score is not smaller: a stable sort.
InsertByScore(sorted, x) ==
    IF sorted = <<>> THEN <<x>>
    ELSE IF Head(sorted).score >= x.score
         THEN <<Head(sorted)>> \o InsertByScore(Tail(sorted), x)
         ELSE <<x>> \o sorted

RECURSIVE SortByScore(_, _)
\* scoredChunks.sort((a, b) => b.score - a.score)
SortByScore(seq, k) ==
    IF k = 0 THEN <<>> ELSE InsertByScore(SortByScore(seq, k - 1), seq[k])

\* slice(0, topK).filter(chunk => chunk.score > 0)
PositiveScore(chunk) == chunk.score > 0

TopPositive(sorted, topK) ==
    SelectSeq(Slice(sorted, 1, Min(topK, Len(sorted))), PositiveScore)

retrieveRelevantChunks(query, chunks, topK) ==
    TopPositive(SortByScore([k \in 1..Len(chunks) |->
                                [text |-> chunks[k].text, index |-> chunks[k].index,
                                 score |-> calculateRelevanceScore(query, chunks[k].text)]],
                            Len(chunks)),
                topK)

(***************************************************************************)
(* Provider errors: the code (error.code || error.statusCode ||             *)
(* error.status, 0 when absent) and the message the classifiers read.       *)
(***************************************************************************)
StrRateLimit == <<"r", "a", "t", "e", " ", "l", "i", "m", "i", "t">>

StrTooManyRequests == <<"t", "o", "o", " ", "m", "a", "n", "y", " ", "r", "e", "q", "u", "e", "s", "t", "s">>

StrResourceExhausted == <<"r", "e", "s", "o", "u", "r", "c", "e", " ", "e", "x", "h", "a", "u", "s", "t", "e", "d">>

StrQuotaExceeded == <<"q", "u", "o", "t", "a", " ", "e", "x", "c", "e", "e", "d", "e", "d">>

StrQuota == <<"q", "u", "o", "t", "a">>

StrRate == <<"r", "a", "t", "e">>

StrApiKey == <<"a", "p", "i", " ", "k", "e", "y">>

StrAuthentication == <<"a", "u", "t", "h", "e", "n", "t", "i", "c", "a", "t", "i", "o", "n">>

Str401 == <<"4", "0", "1">>

StrNetwork == <<"n", "e", "t", "w", "o", "r", "k">>

StrGenerate == <<"g", "e", "n", "e", "r", "a", "t", "e">>

Space == <<" ">>

Err(code, message) == [code |-> code, message |-> message]

\* The errors the remote provider's SDK is taken to raise.
ProviderErrors ==
    { Err(429, StrTooManyRequests),
      Err(0, StrRateLimit),
      Err(0, StrResourceExhausted),
      Err(429, StrQuotaExceeded),
      Err(0, StrQuotaExceeded \o Space \o StrRateLimit),
      Err(0, StrQuotaExceeded),
      Err(0, StrQuota),
      Err(0, StrQuota \o Space \o StrGenerate),
      Err(0, StrQuota \o Space \o StrApiKey),
      Err(0, StrApiKey),
      Err(0, StrAuthentication),
      Err(0, Str401),
      Err(401, StrNetwork),
      Err(500, StrNetwork),
      Err(0, StrNetwork),
      Err(0, <<>>) }

NoError == Err(0, <<"-">>)

(***************************************************************************)
(* utils/rateLimiter.js                                                     *)
(***************************************************************************)
MAX_CONCURRENT_REQUESTS == 1

MIN_REQUEST_INTERVAL == 2000

\* sleep(100) of the polling loop in waitForSlot.
PollInterval == 100

\* The mutant of isRateLimit that takes every error for a rate limit.
isRateLimitAlways(error) == TRUE

\* retryWithBackoff's classification of a caught error.
isRateLimit(error) ==
    LET errorMessage == toLowerCase(error.message) IN
    \/ error.code = 429
    \/ Includes(errorMessage, StrRateLimit)
    \/ Includes(errorMessage, StrTooManyRequests)
    \/ Includes(errorMessage, StrResourceExhausted)

\* The mutant of rethrows that goes on retrying after maxRetries.
rethrowsOtherErrors(error, k, opts) == ~isRateLimit(error)

\* if (!isRateLimit || attempt >= maxRetries) of retryWithBackoff's catch.
rethrows(error, k, opts) == ~isRateLimit(error) \/ k >= opts.maxRetries

RECURSIVE Pow(_, _)
Pow(b, n) == IF n = 0 THEN 1 ELSE b * Pow(b, n - 1)

\* The mutant of BackoffDelay that has no cap.
BackoffDelayUncapped(opts, k) == opts.initialDelay * Pow(opts.backoffMultiplier, k)

\* Math.min(initialDelay * Math.pow(backoffMultiplier, attempt), maxDelay)
BackoffDelay(opts, k) ==
    Min(opts.initialDelay * Pow(opts.backoffMultiplier, k), opts.maxDelay)

Options(maxRetries, initialDelay, maxDelay, backoffMultiplier) ==
    [maxRetries |-> maxRetries, initialDelay |-> initialDelay,
     maxDelay |-> maxDelay, backoffMultiplier |-> backoffMultiplier]

\* The options of a call that passes none.
DefaultOptions == Options(5, 3000, 30000, 2)

\* The options generateAnswer and generateGeneralChat pass.
GenerateAnswerOptions == Options(2, 2000, 10000, 2)

\* The options expandQueryWithAI passes.
ExpandQueryOptions == Options(2, 1500, 8000, 2)

\* The options analyzeAndExpandKnowledgeBase passes.
AnalyzeOptions == Options(2, 2000, 8000, 2)

(***************************************************************************)
(* The request gate as a state machine.  JavaScript runs each piece of code *)
(* between two awaits without interruption, so each action is one such      *)
(* piece.  A timer fires at or after its time, never before.  Time is in    *)
(* milliseconds and advances in steps of Tick.                              *)
(***************************************************************************)
MaxTime == 9000

Tick == MIN_REQUEST_INTERVAL \div 2

\* The concurrent callers of retryWithBackoff (requests being served).
Callers == {"c1", "c2"}

\* The errors a wrapped apiCall fails with in the gate's specification.
GateErrors ==
    { Err(429, StrTooManyRequests), Err(0, StrRateLimit), Err(500, StrNetwork) }

GateOptions == { GenerateAnswerOptions, ExpandQueryOptions }

\* What a caller has of its call: the result's kind once it has one, and
\* lastError, the error of its last failed attempt.
NoResult == [kind |-> "none", error |-> NoError]

\* waitForSlot, from its entry or from the wake-up of its polling sleep to
\* its next await or its return: c polls, sleeps for the spacing, or is
\* granted the slot at once.
waitForSlot(c) ==
    IF activeRequests >= MAX_CONCURRENT_REQUESTS
    THEN /\ pc' = [pc EXCEPT ![c] = "poll"]
         /\ wake' = [wake EXCEPT ![c] = now + PollInterval]
         /\ UNCHANGED <<activeRequests, lastRequestTime, prevGrantTime, grantCount>>
    ELSE LET timeSinceLastRequest == now - lastRequestTime IN
         IF timeSinceLastRequest < MIN_REQUEST_INTERVAL
         THEN /\ pc' = [pc EXCEPT ![c] = "space"]
              /\ wake' = [wake EXCEPT ![c] = now + (MIN_REQUEST_INTERVAL - timeSinceLastRequest)]
              /\ UNCHANGED <<activeRequests, lastRequestTime, prevGrantTime, grantCount>>
         ELSE /\ activeRequests' = activeRequests + 1
              /\ lastRequestTime' = now
              /\ prevGrantTime' = lastRequestTime
              /\ grantCount' = Min(grantCount + 1, 2)
              /\ pc' = [pc EXCEPT ![c] = "call"]
              /\ wake' = [wake EXCEPT ![c] = 0]

\* retryWithBackoff(apiCall, opts) is called: attempt 0 enters waitForSlot.
Call(c) ==
    /\ pc[c] = "idle"
    /\ \E opts \in GateOptions : options' = [options EXCEPT ![c] = opts]
    /\ waitForSlot(c)
    /\ UNCHANGED <<now, attempt, result, calls>>
    /\ UNCHANGED nonGateVars

\* The polling sleep of waitForSlot ends: the loop condition is read again.
PollWake(c) ==
    /\ pc[c] = "poll"
    /\ now >= wake[c]
    /\ waitForSlot(c)
    /\ UNCHANGED <<now, attempt, options, result, calls>>
    /\ UNCHANGED nonGateVars

\* The spacing sleep of waitForSlot ends: the slot is taken.
SpaceWake(c) ==
    /\ pc[c] = "space"
    /\ now >= wake[c]
    /\ activeRequests' = activeRequests + 1
    /\ lastRequestTime' = now
    /\ prevGrantTime' = lastRequestTime
    /\ grantCount' = Min(grantCount + 1, 2)
    /\ pc' = [pc EXCEPT ![c] = "call"]
    /\ wake' = [wake EXCEPT ![c] = 0]
    /\ UNCHANGED <<now, attempt, options, result, calls>>
    /\ UNCHANGED nonGateVars

\* The mutant of releaseSlot that releases nothing.
releaseSlotNever == activeRequests

\* releaseSlot
releaseSlot == Max(0, activeRequests - 1)

\* The wrapped apiCall resolves: the slot is released, the result returned.
CallSucceeds(c) ==
    /\ pc[c] = "call"
    /\ activeRequests' = releaseSlot
    /\ calls' = [calls EXCEPT ![c] = @ + 1]
    /\ result' = [result EXCEPT ![c] = [kind |-> "ok", error |-> NoError]]
    /\ pc' = [pc EXCEPT ![c] = "done"]
    /\ UNCHANGED <<now, lastRequestTime, wake, attempt, options, prevGrantTime, grantCount>>
    /\ UNCHANGED nonGateVars

\* The mutant of CallFails that keeps the slot through the backoff sleep.
CallFailsHolding(c) ==
    /\ pc[c] = "call"
    /\ calls' = [calls EXCEPT ![c] = @ + 1]
    /\ \E error \in GateErrors :
         IF rethrows(error, attempt[c], options[c])
         THEN /\ result' = [result EXCEPT ![c] = [kind |-> "error", error |-> error]]
              /\ pc' = [pc EXCEPT ![c] = "done"]
              /\ activeRequests' = releaseSlot
              /\ UNCHANGED wake
         ELSE /\ result' = [result EXCEPT ![c] = [kind |-> "none", error |-> error]]
              /\ pc' = [pc EXCEPT ![c] = "backoff"]
              /\ wake' = [wake EXCEPT ![c] = now + BackoffDelay(options[c], attempt[c])]
              /\ UNCHANGED activeRequests
    /\ UNCHANGED <<now, lastRequestTime, attempt, options, prevGrantTime, grantCount>>
    /\ UNCHANGED nonGateVars

\* The wrapped apiCall rejects: the slot is released and the error is
\* rethrown to the outer catch, which keeps it as lastError and rethrows it
\* or sleeps for the backoff.
CallFails(c) ==
    /\ pc[c] = "call"
    /\ activeRequests' = releaseSlot
    /\ calls' = [calls EXCEPT ![c] = @ + 1]
    /\ \E error \in GateErrors :
         IF rethrows(error, attempt[c], options[c])
         THEN /\ result' = [result EXCEPT ![c] = [kind |-> "error", error |-> error]]
              /\ pc' = [pc EXCEPT ![c] = "done"]
              /\ UNCHANGED wake
         ELSE /\ result' = [result EXCEPT ![c] = [kind |-> "none", error |-> error]]
              /\ pc' = [pc EXCEPT ![c] = "backoff"]
              /\ wake' = [wake EXCEPT ![c] = now + BackoffDelay(options[c], attempt[c])]
    /\ UNCHANGED <<now, lastRequestTime, attempt, options, prevGrantTime, grantCount>>
    /\ UNCHANGED nonGateVars

\* The backoff sleep ends: the next attempt enters waitForSlot.
BackoffWake(c) ==
    /\ pc[c] = "backoff"
    /\ now >= wake[c]
    /\ attempt' = [attempt EXCEPT ![c] = @ + 1]
    /\ waitForSlot(c)
    /\ UNCHANGED <<now, options, result, calls>>
    /\ UNCHANGED nonGateVars

\* The caller has its result and may call retryWithBackoff again.
Return(c) ==
    /\ pc[c] = "done"
    /\ pc' = [pc EXCEPT ![c] = "idle"]
    /\ attempt' = [attempt EXCEPT ![c] = 0]
    /\ options' = [options EXCEPT ![c] = GenerateAnswerOptions]
    /\ result' = [result EXCEPT ![c] = NoResult]
    /\ calls' = [calls EXCEPT ![c] = 0]
    /\ UNCHANGED <<now, activeRequests, lastRequestTime, wake, prevGrantTime, grantCount>>
    /\ UNCHANGED nonGateVars

\* Time passes.
Advance ==
    /\ now + Tick <= MaxTime
    /\ now' = now + Tick
    /\ UNCHANGED <<activeRequests, lastRequestTime, pc, wake, attempt, options,
                   result, calls, prevGrantTime, grantCount>>
    /\ UNCHANGED nonGateVars

\* No streaming generation is running.
StreamIdle ==
    /\ stream = <<>>
    /\ consumed = 0
    /\ buffer = <<>>
    /\ fullText = <<>>
    /\ delivered = <<>>
    /\ streamPc = "idle"
    /\ streamResult = <<>>

\* knowledge_base.txt with this text, and the missing file.
Stored(text) == [exists |-> TRUE, text |-> text]

NoFile == [exists |-> FALSE, text |-> <<>>]

\* The file a knowledge base of this text was loaded from.
FileOf(text) == IF text = <<>> THEN NoFile ELSE Stored(text)

Updaters == {"upload", "expansion"}

NoUpdate == [pc |-> "idle", text |-> <<>>, success |-> FALSE, chunksCount |-> 0]

NoExpansion == [pc |-> "idle", log |-> "none", base |-> <<>>]

\* The module is loaded, and neither an update nor an expansion is running.
NoCall == [op |-> "none"]

TextIdle == call = NoCall

KbIdle ==
    /\ file = FileOf(originalText)
    /\ loadPc = "loaded"
    /\ update = [u \in Updaters |-> NoUpdate]
    /\ expansion = NoExpansion

\* No streaming chat request is being handled.
ChatIdle ==
    /\ chatPc = "idle"
    /\ written = <<>>

NoOutcome == [answer |-> <<>>, sources |-> <<>>, mode |-> "none"]

NoResponse == [finishReason |-> "none", text |-> <<>>]

\* No query is being processed and the knowledge base is empty.
QueryIdle ==
    /\ originalText = <<>>
    /\ textChunks = <<>>
    /\ genAI = TRUE
    /\ userQuery = <<>>
    /\ queryPc = "idle"
    /\ expandedQuery = <<>>
    /\ contextText = <<>>
    /\ useFullKnowledgeBase = FALSE
    /\ queryAttempt = 0
    /\ lastError = NoError
    /\ response = NoResponse
    /\ trace = <<>>
    /\ expansionStarted = FALSE
    /\ outcome = NoOutcome
    /\ thrown = FALSE
    /\ caught = <<>>

\* The module is loaded: no request yet, and lastRequestTime = 0 lies more
\* than MIN_REQUEST_INTERVAL before the clock (Date.now() counts from 1970).
InitGate ==
    /\ now = MIN_REQUEST_INTERVAL
    /\ activeRequests = 0
    /\ lastRequestTime = 0
    /\ pc = [c \in Callers |-> "idle"]
    /\ wake = [c \in Callers |-> 0]
    /\ attempt = [c \in Callers |-> 0]
    /\ options = [c \in Callers |-> GenerateAnswerOptions]
    /\ result = [c \in Callers |-> NoResult]
    /\ calls = [c \in Callers |-> 0]
    /\ prevGrantTime = 0
    /\ grantCount = 0
    /\ StreamIdle
    /\ QueryIdle
    /\ ChatIdle
    /\ KbIdle
    /\ TextIdle

NextGate ==
    \/ Advance
    \/ \E c \in Callers :
         \/ Call(c)
         \/ PollWake(c)
         \/ SpaceWake(c)
         \/ CallSucceeds(c)
         \/ CallFails(c)
         \/ BackoffWake(c)
         \/ Return(c)

SpecGate == InitGate /\ [][NextGate]_vars

\* C1. Gate exclusivity: at every instant at most one caller of
\* retryWithBackoff is executing its wrapped apiCall, and activeRequests
\* never exceeds MAX_CONCURRENT_REQUESTS.
GateExclusivity ==
    /\ Cardinality({c \in Callers : pc[c] = "call"}) <= MAX_CONCURRENT_REQUESTS
    /\ activeRequests <= MAX_CONCURRENT_REQUESTS

\* C2. Gate spacing: of any two successive slot grants, the later happens at
\* least MIN_REQUEST_INTERVAL after the earlier.
GateSpacing ==
    grantCount >= 2 => lastRequestTime - prevGrantTime >= MIN_REQUEST_INTERVAL

\* No caller is in retryWithBackoff.
GateIdle ==
    /\ now = MIN_REQUEST_INTERVAL
    /\ activeRequests = 0
    /\ lastRequestTime = 0
    /\ pc = [c \in Callers |-> "idle"]
    /\ wake = [c \in Callers |-> 0]
    /\ attempt = [c \in Callers |-> 0]
    /\ options = [c \in Callers |-> GenerateAnswerOptions]
    /\ result = [c \in Callers |-> NoResult]
    /\ calls = [c \in Callers |-> 0]
    /\ prevGrantTime = 0
    /\ grantCount = 0

(***************************************************************************)
(* services/gemini.js: generateAnswerStream                                 *)
(***************************************************************************)
\* buffer.slice(-50), fullText.slice(-50), buffer.length > 50
CheckWindow == 50

\* /NO[\s_-]*RELEVANT[\s_-]*INFO/i
StreamPattern ==
    Lits(NO) \o <<Star(WhiteSpace \cup {"_", "-"})>> \o Lits(RELEVANT)
        \o <<Star(WhiteSpace \cup {"_", "-"})>> \o Lits(INFO)

\* The most increments a modelled stream is cut into.
MaxIncrements == 3

HYPHEN_MARKER == NO \o <<"-">> \o RELEVANT \o <<"-">> \o INFO

SPACE_MARKER == NO \o <<" ">> \o RELEVANT \o <<" ">> \o INFO

\* The complete outputs of the provider that the streams are cut from.
StreamTexts ==
    { <<"o", "k">> \o MARKER \o <<"o", "k">>,
      <<"h", "i", " ", "y", "o", "u">>,
      <<"o", "k">> \o HYPHEN_MARKER }

RECURSIVE Splits(_, _)
\* The ways to cut s into at most n non-empty increments.
Splits(s, n) ==
    IF s = <<>> THEN {<<>>}
    ELSE IF n = 1 THEN {<<s>>}
    ELSE {<<s>>} \cup
         UNION { { <<Slice(s, 1, k)>> \o rest : rest \in Splits(Slice(s, k + 1, Len(s)), n - 1) }
                 : k \in 1..(Len(s) - 1) }

StreamInputs == UNION { Splits(t, MaxIncrements) : t \in StreamTexts }

\* What the batch call made after a stream failure returns as response.text().
BatchTexts == { <<>>, <<"o", "k">>, <<" ">> \o MARKER \o <<"o", "k">> }

\* A chunk event of the response.
ChunkEvent(content) == [type |-> "chunk", content |-> content]

ChunkEvents(texts) == [i \in 1..Len(texts) |-> ChunkEvent(texts[i])]

\* onChunk: the callback handleStreamingChat passes writes one chunk event
\* for each call; with no request being handled the calls are only recorded.
onChunk(texts) ==
    written' = IF chatPc = "idle" THEN written ELSE written \o ChunkEvents(texts)

\* The calls of onChunk made in this step.
NewlyDelivered == SubSeq(delivered', Len(delivered) + 1, Len(delivered'))

\* One iteration of `for await (const chunk of result.stream)`.
StreamChunk ==
    /\ streamPc = "streaming"
    /\ consumed < Len(stream)
    /\ LET increment == stream[consumed + 1]
           buffer1 == buffer \o increment
           fullText1 == fullText \o increment
           checkWindow == SliceLast(buffer1, CheckWindow)
           cleanedChunk == sanitizeAnswer(increment)
       IN  /\ consumed' = consumed + 1
           /\ IF increment = <<>>
              THEN UNCHANGED <<buffer, fullText, delivered>>
              ELSE /\ delivered' =
                        IF cleanedChunk # <<>> THEN Append(delivered, cleanedChunk)
                        ELSE delivered
                   /\ IF RegexTest(checkWindow, StreamPattern)
                      THEN /\ fullText' = sanitizeAnswer(fullText1)
                           /\ buffer' = SliceLast(sanitizeAnswer(fullText1), CheckWindow)
                      ELSE /\ fullText' = fullText1
                           /\ buffer' = IF Len(buffer1) > CheckWindow
                                        THEN SliceLast(buffer1, CheckWindow)
                                        ELSE buffer1
    /\ UNCHANGED <<stream, streamPc, streamResult>>
    /\ onChunk(NewlyDelivered)
    /\ UNCHANGED nonStreamVars

\* The stream ends: the whole text is cleaned once more and returned.
StreamEnd ==
    /\ streamPc = "streaming"
    /\ consumed = Len(stream)
    /\ fullText' = sanitizeAnswer(fullText)
    /\ streamResult' = sanitizeAnswer(fullText)
    /\ streamPc' = "done"
    /\ UNCHANGED <<stream, consumed, buffer, delivered>>
    /\ onChunk(NewlyDelivered)
    /\ UNCHANGED nonStreamVars

\* generateContentStream or the iteration throws: the catch block starts
\* one batch call.
StreamFails ==
    /\ streamPc = "streaming"
    /\ streamPc' = "batch"
    /\ UNCHANGED <<stream, consumed, buffer, fullText, delivered, streamResult>>
    /\ onChunk(NewlyDelivered)
    /\ UNCHANGED nonStreamVars

\* The batch call answers: a non-empty text is cleaned, passed to onChunk
\* once and returned; with an empty text the stream's error is rethrown.
BatchAnswers ==
    /\ streamPc = "batch"
    /\ \E text \in BatchTexts :
         IF text # <<>>
         THEN /\ delivered' = Append(delivered, sanitizeAnswer(text))
              /\ streamResult' = sanitizeAnswer(text)
              /\ streamPc' = "doneBatch"
         ELSE /\ streamPc' = "thrown"
              /\ UNCHANGED <<delivered, streamResult>>
    /\ UNCHANGED <<stream, consumed, buffer, fullText>>
    /\ onChunk(NewlyDelivered)
    /\ UNCHANGED nonStreamVars

\* The batch call throws too: its error leaves generateAnswerStream.
BatchFails ==
    /\ streamPc = "batch"
    /\ streamPc' = "thrown"
    /\ UNCHANGED <<stream, consumed, buffer, fullText, delivered, streamResult>>
    /\ onChunk(NewlyDelivered)
    /\ UNCHANGED nonStreamVars

\* generateAnswerStream(model, prompt, onChunk) is called.
InitStream ==
    /\ stream \in StreamInputs
    /\ consumed = 0
    /\ buffer = <<>>
    /\ fullText = <<>>
    /\ delivered = <<>>
    /\ streamPc = "streaming"
    /\ streamResult = <<>>
    /\ GateIdle
    /\ QueryIdle
    /\ ChatIdle
    /\ KbIdle
    /\ TextIdle

NextStream == StreamChunk \/ StreamEnd \/ StreamFails \/ BatchAnswers \/ BatchFails

SpecStream == InitStream /\ [][NextStream]_vars

\* The documented surface variants of the no-match marker: underscores,
\* hyphens or spaces between the words, in any letter case.
MarkerVariants == { MARKER, HYPHEN_MARKER, SPACE_MARKER }

HasMarker(s) == \E v \in MarkerVariants : Includes(toLowerCase(s), toLowerCase(v))

\* A text with every marker variant, and the brackets around it, taken out.
StripMarkers(s) ==
    LET Bracketed(v) == <<Opt({"(", "fw("})>> \o Lits(v) \o <<Opt({")", "fw)"})>> IN
    ReplaceAll(ReplaceAll(ReplaceAll(s, Bracketed(MARKER), <<>>),
                          Bracketed(HYPHEN_MARKER), <<>>),
               Bracketed(SPACE_MARKER), <<>>)

\* C9. Streaming sanitizer, marker removal: whatever way the provider's
\* output is cut into increments, the concatenation of the increments passed
\* to onChunk contains no marker variant.
StreamMarkerRemoved ==
    (streamPc = "done" /\ HasMarker(Concat(stream))) => ~HasMarker(Concat(delivered))

\* C10. Streaming sanitizer, content preservation: the concatenation of the
\* increments passed to onChunk, and the text returned when the stream ends,
\* equal the provider's increments concatenated with every marker removed.
StreamContentPreserved ==
    streamPc = "done" =>
        /\ Concat(delivered) = StripMarkers(Concat(stream))
        /\ streamResult = StripMarkers(Concat(stream))

(***************************************************************************)
(* services/rag.js and services/gemini.js: processQuery                     *)
(***************************************************************************)
\* The fixed texts of the two services. A sentence nothing looks inside is
\* one element; the pinyin syllables stand for the characters of the source.
FixedHoldingMessage == <<"[holding message]">>

DefaultFallbackMessage == <<"[holding message]", "[urgent: call 0800-123-456]">>

RateLimitNote == <<"\n", "\n", "[note: quick answer from the knowledge base]">>

ConfigErrorMessage == <<"[system configuration error: contact support]">>

ServiceErrorMessage == <<"[AI service unavailable: try again later]">>

NotConfiguredMessage == <<"[Gemini API not configured: check GEMINI_API_KEY]">>

StrSafetyFilterBlocked ==
    <<"S", "A", "F", "E", "T", "Y", "_", "F", "I", "L", "T", "E", "R", "_",
      "B", "L", "O", "C", "K", "E", "D">>

StrEmptyResponse ==
    <<"E", "M", "P", "T", "Y", "_", "R", "E", "S", "P", "O", "N", "S", "E">>

StrRateLimitExceeded ==
    <<"R", "A", "T", "E", "_", "L", "I", "M", "I", "T", "_", "E", "X", "C",
      "E", "E", "D", "E", "D">>

StrApiKeyInvalid ==
    <<"A", "P", "I", "_", "K", "E", "Y", "_", "I", "N", "V", "A", "L", "I",
      "D">>

StrAiServiceUnavailable ==
    <<"A", "I", "_", "S", "E", "R", "V", "I", "C", "E", "_", "U", "N", "A",
      "V", "A", "I", "L", "A", "B", "L", "E">>

StrOllamaAlsoFailed ==
    <<"O", "l", "l", "a", "m", "a", " ", "ye3", "fa1", "sheng1", "cuo4",
      "wu4">>

\* The text before the message in the error generateAnswer rethrows.
StrGeminiError ==
    <<"G", "e", "m", "i", "n", "i", " ", "A", "P", "I", " ", "cuo4", "wu4",
      ":", " ">>

StrNoRelevantInfoUnderscore == toLowerCase(MARKER)

StrNoRelevantInfoSpace == <<"n", "o", " ", "r", "e", "l", "e", "v", "a", "n", "t", " ", "i", "n", "f", "o">>

\* The keywords of generateFallbackAnswer with their canned answers, in the
\* order of the object literal.
keywordMap ==
    << [keyword |-> <<"tui4", "huo4">>, answer |-> <<"[return policy]">>],
       [keyword |-> <<"yun4", "song4">>, answer |-> <<"[delivery times]">>],
       [keyword |-> <<"fu4", "kuan3">>, answer |-> <<"[payment methods]">>],
       [keyword |-> <<"lian2", "luo4">>, answer |-> <<"[contact information]">>],
       [keyword |-> <<"fu2", "wu4", "shi2", "jian1">>, answer |-> <<"[service hours]">>],
       [keyword |-> <<"ying2", "ye4", "shi2", "jian1">>, answer |-> <<"[service hours]">>],
       [keyword |-> <<"hui4", "yuan2">>, answer |-> <<"[member benefits]">>],
       [keyword |-> <<"dian4", "hua4">>, answer |-> <<"[service phone]">>],
       [keyword |-> <<"e", "m", "a", "i", "l">>, answer |-> <<"[service email]">>],
       [keyword |-> <<"you2", "jian4">>, answer |-> <<"[service email]">>] >>

\* substring(0, 200) of the line generateFallbackAnswer returns.
FallbackMaxLength == 200

\* The first entry of keywordMap, from entry k on, whose keyword the query
\* includes; 0 if there is none.
RECURSIVE FirstKeyword(_, _)
FirstKeyword(queryLower, k) ==
    IF k > Len(keywordMap) THEN 0
    ELSE IF Includes(queryLower, keywordMap[k].keyword) THEN k
    ELSE FirstKeyword(queryLower, k + 1)

RECURSIVE BestMatch(_, _, _, _, _)
\* One turn of the loop over the lines, for the score of line k.
BestMatchWith(q, lines, k, bestMatch, bestScore, score) ==
    IF score > bestScore /\ score > 0
    THEN BestMatch(q, lines, k + 1, lines[k], score)
    ELSE BestMatch(q, lines, k + 1, bestMatch, bestScore)

\* The loop over the lines: the first line of the highest positive score.
BestMatch(q, lines, k, bestMatch, bestScore) ==
    IF k > Len(lines) THEN bestMatch
    ELSE BestMatchWith(q, lines, k, bestMatch, bestScore,
                       calculateRelevanceScore(q, lines[k]))

\* replace(/^[-bullet]\s*/, '')
StripBullet(s) ==
    IF Len(s) > 0 /\ s[1] \in {"-", "bullet"}
    THEN Slice(s, SkipClass(s, 2, WhiteSpace), Len(s))
    ELSE s

\* line => line.trim().length > 0
NonBlankLine(line) == Len(Trim(line)) > 0

\* bestMatch.trim().replace(...).substring(0, 200)
FormatMatch(formatted) == Slice(formatted, 1, Min(FallbackMaxLength, Len(formatted)))

\* The answer for the entry k of keywordMap found, or else for the best line.
FallbackAnswerOf(k, bestMatch) ==
    IF k > 0 THEN keywordMap[k].answer
    ELSE IF bestMatch # <<>> THEN FormatMatch(StripBullet(Trim(bestMatch)))
    ELSE DefaultFallbackMessage

generateFallbackAnswer(q, context) ==
    FallbackAnswerOf(FirstKeyword(toLowerCase(q), 1),
                     BestMatch(q, SelectSeq(Split(context, <<Lit("\n")>>), NonBlankLine),
                               1, <<>>, 0))

Outcome(answer, mode) == [answer |-> answer, sources |-> <<>>, mode |-> mode]

\* The mutant of processQueryCatch that catches nothing.
processQueryRethrows(message, q, context) ==
    [thrown |-> TRUE, fallback |-> FALSE, outcome |-> NoOutcome]

\* The catch block of processQuery: the outcome for the error generateAnswer
\* threw, and whether generateFallbackAnswer was called for it.
processQueryCatch(message, q, context) ==
    LET mode == IF message = StrSafetyFilterBlocked THEN "safety_fallback"
                ELSE IF message = StrEmptyResponse THEN "empty_response_fallback"
                ELSE IF message = StrRateLimitExceeded THEN "rate_limit_fallback"
                ELSE IF message = StrApiKeyInvalid THEN "config_error"
                ELSE IF \/ message = StrAiServiceUnavailable
                        \/ Includes(message, StrOllamaAlsoFailed)
                THEN "fallback"
                ELSE "error"
        fallback == mode \notin {"config_error", "error"}
        answer == IF fallback
                  THEN generateFallbackAnswer(q, context)
                       \o (IF mode = "rate_limit_fallback" THEN RateLimitNote ELSE <<>>)
                  ELSE IF mode = "config_error" THEN ConfigErrorMessage
                  ELSE ServiceErrorMessage IN
    [thrown |-> FALSE, fallback |-> fallback, outcome |-> Outcome(answer, mode)]

\* The character classes of the two contact patterns of generateAnswer.
DigitChars == {"0", "1", "2", "3", "4", "5", "6", "7", "8", "9"}

PhoneChars == DigitChars \cup {"-"}

Letters ==
    { LowerChars[i] : i \in 1..Len(LowerChars) } \cup { UpperChars[i] : i \in 1..Len(UpperChars) }

EmailChars == Letters \cup DigitChars \cup {".", "_", "-"}

Colons == {"fw:", ":"}

PhonePrefix == Lits(<<"ke4", "fu2", "dian4", "hua4">>) \o <<[t |-> "lit", cs |-> Colons], Star(WhiteSpace)>>

EmailPrefix == Lits(<<"dian4", "zi3", "you2", "jian4">>) \o <<[t |-> "lit", cs |-> Colons], Star(WhiteSpace)>>

\* The run of cs at position a, the empty text when a is 0.
RunAt(context, a, cs) ==
    IF a > 0 THEN Slice(context, a, SkipClass(context, a, cs) - 1) ELSE <<>>

\* The last "." of the domain that a letter follows, 0 if none: the domain
\* starts after the "@" at position at and its characters end before e.
LastDot(context, at, e) ==
    Greatest({ d \in (at + 2)..(e - 2) : context[d] = "." /\ context[d + 1] \in Letters })

\* The address from a to the letters after the dot d, for the "@" at at.
EmailWith(context, a, at, d) ==
    IF at > a /\ at <= Len(context) /\ context[at] = "@" /\ d > 0
    THEN Slice(context, a, SkipClass(context, d + 1, Letters) - 1)
    ELSE <<>>

\* The address at position a: a run of EmailChars, "@", a run of EmailChars
\* cut at its last "." that letters follow, and the letters after it.
EmailAfterLocal(context, a, at) ==
    EmailWith(context, a, at, LastDot(context, at, SkipClass(context, at + 1, EmailChars)))

EmailAt(context, a) ==
    IF a > 0 THEN EmailAfterLocal(context, a, SkipClass(context, a, EmailChars)) ELSE <<>>

RECURSIVE PhoneFrom(_, _)
PhoneOr(context, i, m) == IF m # <<>> THEN m ELSE PhoneFrom(context, i + 1)

\* The first capture group of contextText.match(/<prefix>([0-9-]+)/) from
\* position i on, the empty text for null.
PhoneFrom(context, i) ==
    IF i > Len(context) THEN <<>>
    ELSE PhoneOr(context, i, RunAt(context, MatchFrom(PhonePrefix, 1, context, i), PhoneChars))

RECURSIVE EmailFrom(_, _)
EmailOr(context, i, m) == IF m # <<>> THEN m ELSE EmailFrom(context, i + 1)

\* The first capture group of the match of the address pattern.
EmailFrom(context, i) ==
    IF i > Len(context) THEN <<>>
    ELSE EmailOr(context, i, EmailAt(context, MatchFrom(EmailPrefix, 1, context, i)))

\* The preset apology of generateAnswer for the contacts found.
PresetApology(phone, email) ==
    IF phone # <<>> /\ email # <<>>
    THEN <<"[sorry, we need to confirm; if urgent call]", " ">> \o phone
         \o <<" ", "[or mail]", " ">> \o email \o <<"[we will handle it soon]">>
    ELSE IF phone # <<>>
    THEN <<"[sorry, we need to confirm; if urgent call]", " ">> \o phone
         \o <<"[we will handle it soon]">>
    ELSE IF email # <<>>
    THEN <<"[sorry, we need to confirm; if urgent mail]", " ">> \o email
         \o <<"[we will handle it soon]">>
    ELSE <<"[sorry, we need to confirm; if urgent contact support]">>

\* The length under which generateAnswer replaces what is left of an answer
\* that carried the marker.
MinApologyLength == 20

\* The words one of which the rest of such an answer must hold to be kept.
ApologyWords ==
    { <<"que4", "ren4">>, <<"shao1", "hou4">>, <<"shao1", "deng3">>,
      <<"wu2", "fa3">>, <<"xu1", "yao4">> }

\* The test of generateAnswer on the sanitized answer for the marker.
hasNoRelevantInfo(answer) ==
    \/ Includes(toLowerCase(answer), StrNoRelevantInfoUnderscore)
    \/ Includes(toLowerCase(answer), StrNoRelevantInfoSpace)

needsRegeneration(aiMessage) ==
    \/ aiMessage = <<>>
    \/ Len(aiMessage) < MinApologyLength
    \/ \A w \in ApologyWords : ~Includes(aiMessage, w)

\* The two checks of generateAnswer on the provider's response: the error
\* it throws, NoError if it throws none.
checkResponse(resp) ==
    IF resp.finishReason = "SAFETY" THEN Err(0, StrSafetyFilterBlocked)
    ELSE IF Len(Trim(resp.text)) = 0 THEN Err(0, StrEmptyResponse)
    ELSE NoError

\* The branch of generateAnswer for an answer that holds the marker after
\* the first sanitizeAnswer.
markedAnswerOf(aiMessage) ==
    IF needsRegeneration(aiMessage)
    THEN [kind |-> "regenerate", answer |-> <<>>]
    ELSE [kind |-> "return",
          answer |-> sanitizeAnswer(sanitizeAnswer(sanitizeAnswer(aiMessage)))]

sanitizedAnswerOf(answer) ==
    IF ~hasNoRelevantInfo(answer)
    THEN [kind |-> "return", answer |-> sanitizeAnswer(answer)]
    ELSE markedAnswerOf(sanitizeAnswer(answer))

\* generateAnswer from the response to its return, for a response that
\* passed the checks: the answer it returns, or that it asks the provider
\* for an apology first.
answerOf(resp) == sanitizedAnswerOf(sanitizeAnswer(resp.text))

\* The apology branch after its call: the provider's text, or the preset on
\* failure, then the two last sanitizeAnswer of generateAnswer.
apologyAnswer(text, failed, context) ==
    sanitizeAnswer(sanitizeAnswer(
        IF failed THEN PresetApology(PhoneFrom(context, 1), EmailFrom(context, 1))
        ELSE sanitizeAnswer(Trim(text))))

\* The mutant of isQuotaExceeded that sees no quota error.
isQuotaExceededNever(error) == FALSE

isQuotaExceeded(error) ==
    LET errorMessage == toLowerCase(error.message) IN
    \/ Includes(errorMessage, StrQuotaExceeded)
    \/ Includes(errorMessage, StrQuota) /\ ~Includes(errorMessage, StrRate)

\* The mutant of isApiKeyError that sees no credential error.
isApiKeyErrorNever(error) == FALSE

isApiKeyError(error) ==
    LET errorMessage == toLowerCase(error.message) IN
    \/ Includes(errorMessage, StrApiKey)
    \/ Includes(errorMessage, StrAuthentication)
    \/ Includes(errorMessage, Str401)
    \/ error.code = 401

\* The mutant of isRateLimitExceeded that sees no rate limit.
isRateLimitExceededNever(error) == FALSE

\* The first test of the catch block of generateAnswer.
isRateLimitExceeded(error) ==
    LET errorMessage == toLowerCase(error.message) IN
    \/ error.code = 429
    \/ Includes(errorMessage, StrRateLimit)
    \/ Includes(errorMessage, StrTooManyRequests)
    \/ Includes(errorMessage, StrResourceExhausted)

\* The error generateAnswer throws for an error of no class it knows.
GeminiError(error) ==
    StrGeminiError
    \o (IF error.message = <<>> THEN <<"[unknown error]">> ELSE error.message)
    \o <<" ", "(", "[error code]", ":", " ">>
    \o (IF error.code = 0 THEN <<"N", "/", "A">> ELSE Digits(error.code))
    \o <<")">>

\* The catch block with the quota test before the rate-limit test.
classifyErrorQuotaFirst(error) ==
    IF isQuotaExceeded(error) \/ Includes(toLowerCase(error.message), StrQuota)
    THEN [kind |-> "ollama", message |-> <<>>]
    ELSE IF isRateLimitExceeded(error)
    THEN [kind |-> "throw", message |-> StrRateLimitExceeded]
    ELSE IF isApiKeyError(error) THEN [kind |-> "throw", message |-> StrApiKeyInvalid]
    ELSE [kind |-> "throw", message |-> GeminiError(error)]

\* The catch block of generateAnswer: the message of the error it throws,
\* or that it turns to the local provider.
classifyError(error) ==
    IF isRateLimitExceeded(error) THEN [kind |-> "throw", message |-> StrRateLimitExceeded]
    ELSE IF isQuotaExceeded(error) THEN [kind |-> "ollama", message |-> <<>>]
    ELSE IF isApiKeyError(error) THEN [kind |-> "throw", message |-> StrApiKeyInvalid]
    ELSE [kind |-> "throw", message |-> GeminiError(error)]

(***************************************************************************)
(* One processQuery call, step by step                                      *)
(***************************************************************************)
\* The texts a knowledge base is loaded from: no file, a policy with the
\* service contacts, and a list with a bare bullet before its entry.
KnowledgeBases ==
    { <<>>,
      <<"tui4", "huo4", "zheng4", "ce4", "fw:", "7", "tian1", "nei4", "\n", "\n",
        "ke4", "fu2", "dian4", "hua4", "fw:", "0", "8", "0", "0", "-", "1", "\n",
        "dian4", "zi3", "you2", "jian4", "fw:", " ", "a", "@", "b", ".", "c", "o">>,
      <<"-", "\n", "-", " ", "yun4", "fei4", "3", "0", "yuan2", "fw.">> }

\* The questions asked: one with a keyword of keywordMap, one without, one
\* of punctuation only, and a bullet.
Queries == { <<"tui4", "huo4">>, <<"yun4", "fei4">>, <<"fw?">>, <<"-">> }

\* What the provider answers to the expansion prompt.
ExpandTexts == { <<>>, <<" ", "yun4", "song4", "\n">> }

NESTED_SPACE_MARKER == NO \o <<" ">> \o RELEVANT \o <<" ">> \o SPACE_MARKER \o <<" ">> \o INFO

NESTED_HYPHEN_MARKER ==
    NO \o <<"-">> \o RELEVANT \o <<"-">> \o NO \o <<"-">> \o RELEVANT \o <<"-">>
    \o HYPHEN_MARKER \o INFO \o INFO

\* What the provider answers to the generation prompt.
ResponseTexts ==
    { <<"o", "k">>,
      <<>>,
      <<" ", "\n">>,
      MARKER,
      <<"(">> \o MARKER \o <<")", " ", "o", "k">>,
      NESTED_SPACE_MARKER,
      NESTED_SPACE_MARKER \o <<" ", "xu1", "yao4", " ">>
          \o <<"a", "b", "c", "d", "e", "f", "g", "h", "i", "j", "k", "l", "m", "n", "o", "p", "q", "r">>,
      NESTED_HYPHEN_MARKER }

Responses ==
    { [finishReason |-> "STOP", text |-> t] : t \in ResponseTexts }
    \cup { [finishReason |-> "SAFETY", text |-> t] : t \in { <<>>, <<"o", "k">> } }

\* What the provider answers to the apology prompt.
ApologyTexts == { <<>>, <<" ", "s", "o", "r", "r", "y", " ">> }

\* What the local provider answers.
OllamaTexts == { <<>>, <<"o", "k">>, MARKER }

\* A call made for the request: its kind, the arguments of a call of the
\* local provider or of generateFallbackAnswer, the text the local provider
\* returned.
EventWith(e, q, context, text) ==
    [e |-> e, userQuery |-> q, contextText |-> context, text |-> text]

Event(e) == EventWith(e, <<>>, <<>>, <<>>)

\* The mutant of noKnowledgeBase that never finds the knowledge base empty.
noKnowledgeBaseNever(chunks) == FALSE

\* textChunks.length === 0
noKnowledgeBase(chunks) == Len(chunks) = 0

\* updateKnowledgeBase(text) between two requests, its write succeeding, and
\* loadKnowledgeBase for the file's text.
updateKnowledgeBase(text) ==
    /\ queryPc = "idle"
    /\ originalText' = text
    /\ textChunks' = chunkText(text, DefaultChunkSize, DefaultOverlap)
    /\ file' = FileOf(text)
    /\ UNCHANGED <<genAI, userQuery, queryPc, expandedQuery, contextText,
                   useFullKnowledgeBase, queryAttempt, lastError, response,
                   trace, expansionStarted, outcome, thrown, caught>>
    /\ UNCHANGED <<loadPc, update, expansion>>
    /\ UNCHANGED <<gateVars, streamVars, chatVars, textVars>>

\* processQuery(q) up to its first await: the answer for an empty knowledge
\* base, or expandQueryWithAI, which returns q at once without a provider.
processQuery(q) ==
    /\ chatPc = "idle"
    /\ queryPc = "idle"
    /\ userQuery' = q
    /\ expandedQuery' = q
    /\ queryAttempt' = 0
    /\ IF noKnowledgeBase(textChunks)
       THEN /\ outcome' = Outcome(FixedHoldingMessage, "no_knowledge_base")
            /\ queryPc' = "resolved"
       ELSE /\ outcome' = NoOutcome
            /\ queryPc' = IF genAI THEN "expandWait" ELSE "retrieve"
    /\ UNCHANGED <<originalText, textChunks, genAI, contextText,
                   useFullKnowledgeBase, lastError, response, trace,
                   expansionStarted, thrown, caught>>
    /\ UNCHANGED <<gateVars, streamVars, chatVars, kbVars, textVars>>

\* expandQueryWithAI: waitForSlot of a retryWithBackoff attempt returns and
\* the call of the provider starts.
ExpandAcquire ==
    /\ queryPc = "expandWait"
    /\ activeRequests < MAX_CONCURRENT_REQUESTS
    /\ activeRequests' = activeRequests + 1
    /\ lastRequestTime' = now
    /\ queryPc' = "expandCall"
    /\ trace' = Append(trace, Event("expand"))
    /\ UNCHANGED <<originalText, textChunks, genAI, userQuery, expandedQuery,
                   contextText, useFullKnowledgeBase, queryAttempt, lastError,
                   response, expansionStarted, outcome, thrown, caught>>
    /\ UNCHANGED <<gateCallerVars, streamVars, chatVars, kbVars, textVars>>

\* `${query} ${expanded}` with expanded = response.text().trim(), and the
\* terms without the query.
mergedQueryTermsOnly(query, text) == Trim(text)

mergedQuery(query, text) == query \o <<" ">> \o Trim(text)

\* expandQueryWithAI: the provider answers, the query is extended.
ExpandReturns(text) ==
    /\ queryPc = "expandCall"
    /\ activeRequests' = releaseSlot
    /\ expandedQuery' = mergedQuery(userQuery, text)
    /\ queryPc' = "retrieve"
    /\ queryAttempt' = 0
    /\ UNCHANGED <<originalText, textChunks, genAI, userQuery, contextText,
                   useFullKnowledgeBase, lastError, response,
                   trace, expansionStarted, outcome, thrown, caught>>
    /\ UNCHANGED <<lastRequestTime, gateCallerVars, streamVars, chatVars, kbVars, textVars>>

\* expandQueryWithAI: the call fails; retryWithBackoff tries again after a
\* rate limit, and at the end the query stays as it is.
ExpandThrows(error) ==
    /\ queryPc = "expandCall"
    /\ activeRequests' = releaseSlot
    /\ IF isRateLimit(error) /\ queryAttempt < ExpandQueryOptions.maxRetries
       THEN /\ queryAttempt' = queryAttempt + 1
            /\ queryPc' = "expandWait"
       ELSE /\ queryAttempt' = 0
            /\ queryPc' = "retrieve"
    /\ UNCHANGED <<originalText, textChunks, genAI, userQuery, expandedQuery,
                   contextText, useFullKnowledgeBase, lastError, response,
                   trace, expansionStarted, outcome, thrown, caught>>
    /\ UNCHANGED <<lastRequestTime, gateCallerVars, streamVars, chatVars, kbVars, textVars>>

\* retrieveRelevantChunks(expandedQuery, textChunks, 5) of processQuery.
TopK == 5

ChunkSeparator == <<"\n", "\n", "-", "-", "-", "\n", "\n">>

\* The mutant of Block that leaves the heading out.
BlockUnlabelled(chunk) == chunk.text

\* A chunk under its heading.
Block(chunk) ==
    <<"[", "qu1", "kuai4", " ">> \o Digits(chunk.index + 1) \o <<"]", "\n">> \o chunk.text

\* The chunks under their headings, joined by the separator.
RECURSIVE JoinChunks(_, _)
JoinChunks(chunks, k) ==
    IF k = Len(chunks) THEN Block(chunks[k])
    ELSE Block(chunks[k]) \o ChunkSeparator \o JoinChunks(chunks, k + 1)

\* processQuery returns the answer of generateAnswer, and starts
\* expandKnowledgeBaseAsync after an answer from the whole knowledge base.
Returned(answer, tr) ==
    /\ outcome' = Outcome(answer, IF useFullKnowledgeBase THEN "full_rag" ELSE "rag")
    /\ expansionStarted' = (useFullKnowledgeBase /\ answer # <<>>)
    /\ trace' = tr
    /\ queryPc' = "resolved"
    /\ UNCHANGED <<thrown, caught>>

\* generateAnswer throws an error with this message.
Throws(message) ==
    /\ queryPc' = "catch"
    /\ caught' = message
    /\ UNCHANGED <<trace, outcome, thrown, expansionStarted>>

\* The catch block of generateAnswer has classified the error.
Classified(c) ==
    IF c.kind = "ollama"
    THEN /\ queryPc' = "ollamaCall"
         /\ trace' = Append(trace, EventWith("ollama", userQuery, contextText, <<>>))
         /\ UNCHANGED <<outcome, thrown, expansionStarted, caught>>
    ELSE Throws(c.message)

\* The catch block of generateAnswer for an error of its try block.
Failed(error) == Classified(classifyError(error))

\* The choice of the context for the chunks retrieved, and generateAnswer up
\* to its first await.
Retrieved(relevantChunks) ==
    /\ contextText' = IF relevantChunks = <<>> THEN originalText
                      ELSE JoinChunks(relevantChunks, 1)
    /\ useFullKnowledgeBase' = (relevantChunks = <<>>)
    /\ IF genAI
       THEN /\ queryPc' = "generateWait"
            /\ UNCHANGED <<trace, outcome, thrown, expansionStarted, caught>>
       ELSE Throws(NotConfiguredMessage)

\* generateAnswer after the checks of the response.
Answered(a) ==
    IF a.kind = "regenerate"
    THEN /\ queryPc' = "apologyCall"
         /\ trace' = Append(trace, Event("apology"))
         /\ UNCHANGED <<outcome, thrown, expansionStarted, caught>>
    ELSE Returned(a.answer, trace)

\* processQuery returns what its catch block made of the error.
Recovered(c) ==
    /\ outcome' = c.outcome
    /\ thrown' = c.thrown
    /\ trace' = IF c.fallback
                THEN Append(trace, EventWith("fallback", userQuery, contextText, <<>>))
                ELSE trace

\* processQuery after expandQueryWithAI: retrieval, the choice of the
\* context, and generateAnswer up to its first await.
Retrieve ==
    /\ queryPc = "retrieve"
    /\ Retrieved(retrieveRelevantChunks(expandedQuery, textChunks, TopK))
    /\ queryAttempt' = 0
    /\ UNCHANGED <<originalText, textChunks, genAI, userQuery, expandedQuery,
                   lastError, response>>
    /\ UNCHANGED <<gateVars, streamVars, chatVars, kbVars, textVars>>

\* generateAnswer: waitForSlot of a retryWithBackoff attempt returns and the
\* call of the provider starts.
GenerateAcquire ==
    /\ chatPc = "idle"
    /\ queryPc = "generateWait"
    /\ activeRequests < MAX_CONCURRENT_REQUESTS
    /\ activeRequests' = activeRequests + 1
    /\ lastRequestTime' = now
    /\ queryPc' = "generateCall"
    /\ trace' = Append(trace, Event("generate"))
    /\ UNCHANGED <<originalText, textChunks, genAI, userQuery, expandedQuery,
                   contextText, useFullKnowledgeBase, queryAttempt, lastError,
                   response, expansionStarted, outcome, thrown, caught>>
    /\ UNCHANGED <<gateCallerVars, streamVars, chatVars, kbVars, textVars>>

\* generateAnswer: the provider answers.
GenerateReturns(resp) ==
    /\ queryPc = "generateCall"
    /\ activeRequests' = releaseSlot
    /\ response' = resp
    /\ lastError' = NoError
    /\ queryAttempt' = 0
    /\ IF checkResponse(resp) # NoError THEN Failed(checkResponse(resp))
       ELSE Answered(answerOf(resp))
    /\ UNCHANGED <<originalText, textChunks, genAI, userQuery, expandedQuery,
                   contextText, useFullKnowledgeBase>>
    /\ UNCHANGED <<lastRequestTime, gateCallerVars, streamVars, chatVars, kbVars, textVars>>

\* generateAnswer: the call fails; retryWithBackoff tries again after a rate
\* limit, and at the end the error reaches the catch block.
GenerateThrows(error) ==
    /\ queryPc = "generateCall"
    /\ activeRequests' = releaseSlot
    /\ lastError' = error
    /\ IF isRateLimit(error) /\ queryAttempt < GenerateAnswerOptions.maxRetries
       THEN /\ queryAttempt' = queryAttempt + 1
            /\ queryPc' = "generateWait"
            /\ UNCHANGED <<trace, outcome, thrown, expansionStarted, caught>>
       ELSE /\ queryAttempt' = 0
            /\ Failed(error)
    /\ UNCHANGED <<originalText, textChunks, genAI, userQuery, expandedQuery,
                   contextText, useFullKnowledgeBase, response>>
    /\ UNCHANGED <<lastRequestTime, gateCallerVars, streamVars, chatVars, kbVars, textVars>>

\* The apology call of generateAnswer, made without the gate, answers.
ApologyReturns(text) ==
    /\ queryPc = "apologyCall"
    /\ Returned(apologyAnswer(text, FALSE, contextText), trace)
    /\ UNCHANGED <<originalText, textChunks, genAI, userQuery, expandedQuery,
                   contextText, useFullKnowledgeBase, queryAttempt, lastError,
                   response>>
    /\ UNCHANGED <<gateVars, streamVars, chatVars, kbVars, textVars>>

\* The apology call fails: the preset apology.
ApologyThrows ==
    /\ queryPc = "apologyCall"
    /\ Returned(apologyAnswer(<<>>, TRUE, contextText), trace)
    /\ UNCHANGED <<originalText, textChunks, genAI, userQuery, expandedQuery,
                   contextText, useFullKnowledgeBase, queryAttempt, lastError,
                   response>>
    /\ UNCHANGED <<gateVars, streamVars, chatVars, kbVars, textVars>>

\* generateAnswerWithOllama returns data.response.trim().
OllamaReturns(text) ==
    /\ chatPc = "idle"
    /\ queryPc = "ollamaCall"
    /\ Returned(Trim(text), Append(trace, EventWith("ollamaReturned", <<>>, <<>>, Trim(text))))
    /\ UNCHANGED <<originalText, textChunks, genAI, userQuery, expandedQuery,
                   contextText, useFullKnowledgeBase, queryAttempt, lastError,
                   response>>
    /\ UNCHANGED <<gateVars, streamVars, chatVars, kbVars, textVars>>

\* generateAnswerWithOllama throws: generateAnswer throws
\* AI_SERVICE_UNAVAILABLE.
OllamaThrows ==
    /\ chatPc = "idle"
    /\ queryPc = "ollamaCall"
    /\ Throws(StrAiServiceUnavailable)
    /\ UNCHANGED <<originalText, textChunks, genAI, userQuery, expandedQuery,
                   contextText, useFullKnowledgeBase, queryAttempt, lastError,
                   response>>
    /\ UNCHANGED <<gateVars, streamVars, chatVars, kbVars, textVars>>

\* The catch block of processQuery.
Catch ==
    /\ chatPc = "idle"
    /\ queryPc = "catch"
    /\ Recovered(processQueryCatch(caught, userQuery, contextText))
    /\ queryPc' = "resolved"
    /\ caught' = <<>>
    /\ UNCHANGED <<originalText, textChunks, genAI, userQuery, expandedQuery,
                   contextText, useFullKnowledgeBase, queryAttempt, lastError,
                   response, expansionStarted>>
    /\ UNCHANGED <<gateVars, streamVars, chatVars, kbVars, textVars>>

\* The route sends the outcome; the next request can come.
Respond ==
    /\ chatPc = "idle"
    /\ queryPc = "resolved"
    /\ ~thrown
    /\ queryPc' = "idle"
    /\ userQuery' = <<>>
    /\ expandedQuery' = <<>>
    /\ contextText' = <<>>
    /\ useFullKnowledgeBase' = FALSE
    /\ queryAttempt' = 0
    /\ lastError' = NoError
    /\ response' = NoResponse
    /\ trace' = <<>>
    /\ expansionStarted' = FALSE
    /\ outcome' = NoOutcome
    /\ UNCHANGED <<originalText, textChunks, genAI, thrown, caught>>
    /\ UNCHANGED <<gateVars, streamVars, chatVars, kbVars, textVars>>

\* The module is loaded: loadKnowledgeBase has read the file, if any, and
\* genAI exists if the key is set.
InitQuery ==
    /\ GateIdle
    /\ StreamIdle
    /\ ChatIdle
    /\ \E text \in KnowledgeBases :
         /\ originalText = text
         /\ textChunks = chunkText(text, DefaultChunkSize, DefaultOverlap)
    /\ genAI \in BOOLEAN
    /\ userQuery = <<>>
    /\ queryPc = "idle"
    /\ expandedQuery = <<>>
    /\ contextText = <<>>
    /\ useFullKnowledgeBase = FALSE
    /\ queryAttempt = 0
    /\ lastError = NoError
    /\ response = NoResponse
    /\ trace = <<>>
    /\ expansionStarted = FALSE
    /\ outcome = NoOutcome
    /\ thrown = FALSE
    /\ caught = <<>>
    /\ KbIdle
    /\ TextIdle

NextQuery ==
    \/ \E text \in KnowledgeBases : updateKnowledgeBase(text)
    \/ \E q \in Queries : processQuery(q)
    \/ ExpandAcquire
    \/ \E text \in ExpandTexts : ExpandReturns(text)
    \/ \E error \in ProviderErrors : ExpandThrows(error)
    \/ Retrieve
    \/ GenerateAcquire
    \/ \E resp \in Responses : GenerateReturns(resp)
    \/ \E error \in ProviderErrors : GenerateThrows(error)
    \/ \E text \in ApologyTexts : ApologyReturns(text)
    \/ ApologyThrows
    \/ \E text \in OllamaTexts : OllamaReturns(text)
    \/ OllamaThrows
    \/ Catch
    \/ Respond

SpecQuery == InitQuery /\ [][NextQuery]_vars

(***************************************************************************)
(* The outcome of processQuery                                              *)
(***************************************************************************)
\* The mode tags processQuery gives its outcomes.
Modes ==
    { "no_knowledge_base", "rag", "full_rag", "safety_fallback",
      "empty_response_fallback", "rate_limit_fallback", "config_error",
      "fallback", "error" }

\* The calls of one kind made for the request so far.
EventsOf(e) == { i \in 1..Len(trace) : trace[i].e = e }

\* A rate-limit signal of the provider: status 429 or one of its phrases.
RateLimitSignal(error) ==
    \/ error.code = 429
    \/ Includes(toLowerCase(error.message), StrRateLimit)
    \/ Includes(toLowerCase(error.message), StrTooManyRequests)
    \/ Includes(toLowerCase(error.message), StrResourceExhausted)

\* A quota-exceeded signal that is no rate-limit signal.
QuotaSignal(error) ==
    /\ ~RateLimitSignal(error)
    /\ Includes(toLowerCase(error.message), StrQuotaExceeded)

\* A credential signal that is neither a rate-limit nor a quota signal.
AuthSignal(error) ==
    /\ ~RateLimitSignal(error)
    /\ ~Includes(toLowerCase(error.message), StrQuota)
    /\ \/ error.code = 401
       \/ Includes(toLowerCase(error.message), StrApiKey)
       \/ Includes(toLowerCase(error.message), StrAuthentication)
       \/ Includes(toLowerCase(error.message), Str401)

\* The provider's response was blocked for safety, or holds no text.
BlockedOrEmpty ==
    /\ queryPc = "resolved"
    /\ response # NoResponse
    /\ (response.finishReason = "SAFETY" \/ Trim(response.text) = <<>>)

\* C3. When the provider's response is blocked for safety or holds no usable
\* text, processQuery answers with generateFallbackAnswer over the same
\* query and context, in the mode safety_fallback or
\* empty_response_fallback and not in the mode error.
SafetyOrEmptyFallsBack ==
    BlockedOrEmpty =>
        outcome = Outcome(generateFallbackAnswer(userQuery, contextText),
                          IF response.finishReason = "SAFETY" THEN "safety_fallback"
                          ELSE "empty_response_fallback")

\* C4. Whatever the query, the knowledge base and the failures of the two
\* providers, processQuery never throws, and the outcome it returns carries
\* a mode tag.
ProcessQueryNeverThrows ==
    /\ ~thrown
    /\ queryPc = "resolved" => outcome.mode \in Modes

\* C4, witness: both providers have failed and processQuery has returned.
BothProvidersFailed ==
    /\ queryPc = "resolved"
    /\ EventsOf("ollama") # {}
    /\ EventsOf("ollamaReturned") = {}
    /\ outcome.mode = "fallback"

\* C5. When every generation call ends in a rate-limit signal, processQuery
\* returns after maxRetries + 1 calls with a non-empty answer made of
\* generateFallbackAnswer's, in the mode rate_limit_fallback, and the local
\* provider is not called.
RateLimitFallsBack ==
    (queryPc = "resolved" /\ RateLimitSignal(lastError)) =>
        /\ Cardinality(EventsOf("generate")) = GenerateAnswerOptions.maxRetries + 1
        /\ outcome = Outcome(generateFallbackAnswer(userQuery, contextText) \o RateLimitNote,
                             "rate_limit_fallback")
        /\ outcome.answer # <<>>
        /\ EventsOf("ollama") = {}
        /\ ~thrown

\* C5, witness: the retries are exhausted on rate-limit signals.
RateLimitExhausted ==
    /\ queryPc = "resolved"
    /\ RateLimitSignal(lastError)
    /\ Cardinality(EventsOf("generate")) = GenerateAnswerOptions.maxRetries + 1
    /\ outcome.mode = "rate_limit_fallback"

\* C6. When the generation fails with a quota-exceeded signal, the local
\* provider is called with the same query and context before any call of
\* generateFallbackAnswer; its text is the answer if it succeeds, and the
\* answer is generateFallbackAnswer's if it fails.
QuotaFallbackChain ==
    (queryPc = "resolved" /\ QuotaSignal(lastError)) =>
        /\ \E i \in 1..Len(trace) : trace[i] = EventWith("ollama", userQuery, contextText, <<>>)
        /\ \A j \in EventsOf("fallback") : \E i \in EventsOf("ollama") : i < j
        /\ IF EventsOf("ollamaReturned") # {}
           THEN /\ \A k \in EventsOf("ollamaReturned") : outcome.answer = trace[k].text
                /\ outcome.mode \in {"rag", "full_rag"}
                /\ EventsOf("fallback") = {}
           ELSE /\ outcome = Outcome(generateFallbackAnswer(userQuery, contextText), "fallback")
                /\ \E j \in 1..Len(trace) :
                     trace[j] = EventWith("fallback", userQuery, contextText, <<>>)
        /\ ~thrown

\* C6, witness: after a quota-exceeded signal the local provider's text is
\* the answer.
QuotaAnsweredLocally ==
    /\ queryPc = "resolved"
    /\ QuotaSignal(lastError)
    /\ \E k \in EventsOf("ollamaReturned") :
         trace[k].text # <<>> /\ outcome.answer = trace[k].text

AnswerHasNoMarker ==
    (queryPc = "resolved" /\ response # NoResponse) => ~HasMarker(outcome.answer)

\* The answers the apology branch of generateAnswer can return over a
\* context: one for each text of the apology call, and the preset.
ApologyAnswers(context) ==
    { apologyAnswer(text, FALSE, context) : text \in ApologyTexts }
    \cup { apologyAnswer(<<>>, TRUE, context) }

\* C11. Whenever the provider's answer holds the marker, the answer returned
\* is that of the apology call made for it, or the preset apology built from
\* the context when that call fails, and not the provider's text with the
\* marker taken out.
MarkedAnswerIsApology ==
    (/\ queryPc = "resolved"
     /\ response # NoResponse
     /\ response.finishReason = "STOP"
     /\ Trim(response.text) # <<>>
     /\ HasMarker(response.text)) =>
        /\ EventsOf("apology") # {}
        /\ outcome.answer \in ApologyAnswers(contextText)

\* The positions of processQuery at which a call of the remote provider is
\* in flight.
ProviderCallPcs == { "expandCall", "generateCall", "apologyCall" }

\* C12. Every call of the remote provider made while a query is served runs
\* while the request gate's slot is held.
ProviderCallsHoldSlot ==
    queryPc \in ProviderCallPcs => activeRequests >= 1

\* C13. Every slot taken for a wrapped call is released exactly once when
\* the call ends, by a result or by an error: activeRequests is the number
\* of wrapped calls executing, and 0 whenever none is.
SlotsMatchCalls ==
    activeRequests = Cardinality({ c \in Callers : pc[c] = "call" })

\* C13, witness: one caller's call has succeeded, another's has failed, and
\* no wrapped call is executing.
SlotsAllReleased ==
    /\ activeRequests = 0
    /\ \E c, d \in Callers : result[c].kind = "ok" /\ result[d].kind = "error"

\* A caller is in retryWithBackoff after a failed attempt that did not end
\* the call.
Retrying(c) ==
    \/ pc[c] = "backoff"
    \/ pc[c] \in {"poll", "space", "call"} /\ attempt[c] > 0

\* C14. An error of the wrapped call that is no rate-limit signal is
\* followed by no backoff sleep and no further attempt: retryWithBackoff
\* rejects with that error, having called apiCall once in each attempt.
OtherErrorEndsRetry ==
    \A c \in Callers :
        /\ Retrying(c) => RateLimitSignal(result[c].error)
        /\ (pc[c] = "done" /\ result[c].kind = "error" /\ ~RateLimitSignal(result[c].error))
               => calls[c] = attempt[c] + 1

\* C14, witness: a call has been rejected with an error that is no
\* rate-limit signal, in its first attempt.
OtherErrorRejected ==
    \E c \in Callers :
        /\ pc[c] = "done"
        /\ result[c].kind = "error"
        /\ ~RateLimitSignal(result[c].error)
        /\ attempt[c] = 0
        /\ calls[c] = 1

\* C15. retryWithBackoff calls apiCall at most maxRetries + 1 times; it
\* returns the first result without calling again, and when every attempt
\* fails with a rate-limit error it rejects with the error of the last
\* attempt after maxRetries + 1 calls, without a sleep after the last.
RetriesAreBounded ==
    \A c \in Callers :
        /\ calls[c] <= options[c].maxRetries + 1
        /\ attempt[c] <= options[c].maxRetries
        /\ pc[c] = "backoff" => attempt[c] < options[c].maxRetries
        /\ (pc[c] = "done" /\ result[c].kind = "ok") => calls[c] = attempt[c] + 1
        /\ (pc[c] = "done" /\ result[c].kind = "error" /\ RateLimitSignal(result[c].error))
               => calls[c] = options[c].maxRetries + 1

\* C15, witness: every attempt of a call has failed with a rate-limit error
\* and the call has been rejected.
RetriesExhausted ==
    \E c \in Callers :
        /\ pc[c] = "done"
        /\ result[c].kind = "error"
        /\ RateLimitSignal(result[c].error)
        /\ calls[c] = options[c].maxRetries + 1

(***************************************************************************)
(* One call of retryWithBackoff from its entry to its end, with the clock  *)
(* moving from one timer to the next.                                       *)
(***************************************************************************)
RetryCaller == "c1"

\* The options retryWithBackoff is called with: those of its four callers
\* and its own defaults.
RetryOptions ==
    { GenerateAnswerOptions, ExpandQueryOptions, AnalyzeOptions, DefaultOptions }

\* retryWithBackoff(apiCall, options) is called: attempt 0 enters waitForSlot.
CallWithOptions(c) ==
    /\ pc[c] = "idle"
    /\ \E opts \in RetryOptions : options' = [options EXCEPT ![c] = opts]
    /\ waitForSlot(c)
    /\ UNCHANGED <<now, attempt, result, calls>>
    /\ UNCHANGED nonGateVars

\* Time passes until the timer of c's sleep is due.
SleepUntilWake(c) ==
    /\ pc[c] \in {"space", "backoff"}
    /\ now < wake[c]
    /\ now' = wake[c]
    /\ UNCHANGED <<activeRequests, lastRequestTime, pc, wake, attempt, options,
                   result, calls, prevGrantTime, grantCount>>
    /\ UNCHANGED nonGateVars

NextRetry ==
    \/ CallWithOptions(RetryCaller)
    \/ SleepUntilWake(RetryCaller)
    \/ SpaceWake(RetryCaller)
    \/ CallSucceeds(RetryCaller)
    \/ CallFails(RetryCaller)
    \/ BackoffWake(RetryCaller)

SpecRetry == InitGate /\ [][NextRetry]_vars

\* min(initialDelay * backoffMultiplier^k, maxDelay)
CappedDelay(opts, k) ==
    IF opts.initialDelay * opts.backoffMultiplier ^ k < opts.maxDelay
    THEN opts.initialDelay * opts.backoffMultiplier ^ k
    ELSE opts.maxDelay

\* C16. The sleep that follows the failed attempt numbered k lasts
\* min(initialDelay * backoffMultiplier^k, maxDelay): never more than
\* maxDelay and never less than the sleep before it.
BackoffDelayIsCapped ==
    [][\A c \in Callers :
          (pc[c] = "call" /\ pc'[c] = "backoff") =>
              /\ wake'[c] - now = CappedDelay(options[c], attempt[c])
              /\ wake'[c] - now <= options[c].maxDelay
              /\ attempt[c] > 0 => wake'[c] - now >= CappedDelay(options[c], attempt[c] - 1)]_vars

\* C16, witness: a sleep is cut down to maxDelay.
BackoffDelayAtCap ==
    \E c \in Callers :
        /\ pc[c] = "backoff"
        /\ options[c].initialDelay * options[c].backoffMultiplier ^ attempt[c] > options[c].maxDelay
        /\ wake[c] - now = options[c].maxDelay

(***************************************************************************)
(* routes/api.js: POST /api/chat with handleStreamingChat, and              *)
(* services/rag.js: processQueryStream                                      *)
(***************************************************************************)
DoneEvent == [type |-> "done", content |-> <<>>]

ErrorEvent(message) == [type |-> "error", content |-> message]

ImportErrorMessage == <<"[cannot load services/rag.js]">>

StreamErrorMessage == <<"[an error occurred: try again later]">>

\* The mutant of terminalEvents that writes the done event before the catch
\* block writes its error event.
terminalEventsBoth(message) == <<DoneEvent, ErrorEvent(message)>>

\* What handleStreamingChat writes last: the done event after
\* processQueryStream returned, the error event in its catch block.
terminalEvents(message) ==
    IF message = <<>> THEN <<DoneEvent>> ELSE <<ErrorEvent(message)>>

\* The catch block of processQueryStream: the text passed to onChunk for the
\* error generateAnswer threw, and whether generateFallbackAnswer made it.
processQueryStreamCatch(message, q, context) ==
    LET fallback == message \in { StrRateLimitExceeded, StrSafetyFilterBlocked,
                                  StrEmptyResponse } IN
    [fallback |-> fallback,
     text |-> IF fallback THEN generateFallbackAnswer(q, context)
              ELSE StreamErrorMessage]

\* The streams of the provider in a streaming chat request: each text in two
\* increments, the first of two characters.
ChatStreams == { s \in StreamInputs : Len(s) = 2 /\ Len(s[1]) = 2 }

\* POST /api/chat with stream = true: handleStreamingChat sets the headers
\* of the response and awaits the import of services/rag.js.
handleStreamingChat(q) ==
    /\ chatPc = "idle"
    /\ queryPc = "idle"
    /\ chatPc' = "import"
    /\ userQuery' = q
    /\ UNCHANGED written
    /\ UNCHANGED <<originalText, textChunks, genAI, queryPc, expandedQuery,
                   contextText, useFullKnowledgeBase, queryAttempt, lastError,
                   response, trace, expansionStarted, outcome, thrown, caught>>
    /\ UNCHANGED <<gateVars, streamVars, kbVars, textVars>>

\* The import is rejected: the catch block writes the error event and ends
\* the response.
ImportFails ==
    /\ chatPc = "import"
    /\ written' = written \o terminalEvents(ImportErrorMessage)
    /\ chatPc' = "ended"
    /\ UNCHANGED <<gateVars, streamVars, queryVars, kbVars, textVars>>

\* processQueryStream(query, onChunk) up to its first await.  With an empty
\* knowledge base it passes the holding message to onChunk and returns, and
\* the handler writes the done event and ends the response.
processQueryStream ==
    /\ chatPc = "import"
    /\ queryPc = "idle"
    /\ IF noKnowledgeBase(textChunks)
       THEN /\ written' = (written \o ChunkEvents(<<FixedHoldingMessage>>))
                              \o terminalEvents(<<>>)
            /\ chatPc' = "ended"
            /\ queryPc' = "resolved"
            /\ UNCHANGED expandedQuery
       ELSE /\ expandedQuery' = userQuery
            /\ queryPc' = IF genAI THEN "expandWait" ELSE "retrieve"
            /\ chatPc' = "query"
            /\ UNCHANGED written
    /\ UNCHANGED <<originalText, textChunks, genAI, userQuery, contextText,
                   useFullKnowledgeBase, queryAttempt, lastError, response,
                   trace, expansionStarted, outcome, thrown, caught>>
    /\ UNCHANGED <<gateVars, streamVars, kbVars, textVars>>

\* generateAnswer with onChunk: generateAnswerStream is called and asks the
\* provider for a stream, without the gate.
GenerateStream ==
    /\ chatPc = "query"
    /\ queryPc = "generateWait"
    /\ stream' \in ChatStreams
    /\ streamPc' = "streaming"
    /\ queryPc' = "streaming"
    /\ trace' = Append(trace, Event("stream"))
    /\ UNCHANGED <<consumed, buffer, fullText, delivered, streamResult>>
    /\ UNCHANGED <<originalText, textChunks, genAI, userQuery, expandedQuery,
                   contextText, useFullKnowledgeBase, queryAttempt, lastError,
                   response, expansionStarted, outcome, thrown, caught>>
    /\ UNCHANGED <<gateVars, chatVars, kbVars, textVars>>

\* generateAnswerStream returns its text: generateAnswer and
\* processQueryStream return, the handler writes the done event and ends the
\* response.
StreamReturns ==
    /\ chatPc = "query"
    /\ queryPc = "streaming"
    /\ streamPc \in {"done", "doneBatch"}
    /\ written' = written \o terminalEvents(<<>>)
    /\ chatPc' = "ended"
    /\ queryPc' = "resolved"
    /\ UNCHANGED <<originalText, textChunks, genAI, userQuery, expandedQuery,
                   contextText, useFullKnowledgeBase, queryAttempt, lastError,
                   response, trace, expansionStarted, outcome, thrown, caught>>
    /\ UNCHANGED <<gateVars, streamVars, kbVars, textVars>>

\* generateAnswerStream throws: the catch block of generateAnswer classifies
\* the error.
StreamThrows(error) ==
    /\ chatPc = "query"
    /\ queryPc = "streaming"
    /\ streamPc = "thrown"
    /\ Failed(error)
    /\ UNCHANGED <<originalText, textChunks, genAI, userQuery, expandedQuery,
                   contextText, useFullKnowledgeBase, queryAttempt, lastError,
                   response>>
    /\ UNCHANGED <<gateVars, streamVars, chatVars, kbVars, textVars>>

\* generateAnswerWithOllama returns: generateAnswer returns its answer, which
\* processQueryStream drops; the handler writes the done event.
StreamOllamaReturns(text) ==
    /\ chatPc = "query"
    /\ queryPc = "ollamaCall"
    /\ trace' = Append(trace, EventWith("ollamaReturned", <<>>, <<>>, Trim(text)))
    /\ written' = written \o terminalEvents(<<>>)
    /\ chatPc' = "ended"
    /\ queryPc' = "resolved"
    /\ UNCHANGED <<originalText, textChunks, genAI, userQuery, expandedQuery,
                   contextText, useFullKnowledgeBase, queryAttempt, lastError,
                   response, expansionStarted, outcome, thrown, caught>>
    /\ UNCHANGED <<gateVars, streamVars, kbVars, textVars>>

\* generateAnswerWithOllama throws: generateAnswer throws
\* AI_SERVICE_UNAVAILABLE.
StreamOllamaThrows ==
    /\ chatPc = "query"
    /\ queryPc = "ollamaCall"
    /\ Throws(StrAiServiceUnavailable)
    /\ UNCHANGED <<originalText, textChunks, genAI, userQuery, expandedQuery,
                   contextText, useFullKnowledgeBase, queryAttempt, lastError,
                   response>>
    /\ UNCHANGED <<gateVars, streamVars, chatVars, kbVars, textVars>>

\* The catch block of processQueryStream passes its text to onChunk;
\* processQueryStream returns and the handler writes the done event.
StreamCatch ==
    /\ chatPc = "query"
    /\ queryPc = "catch"
    /\ LET c == processQueryStreamCatch(caught, userQuery, contextText) IN
         /\ written' = (written \o ChunkEvents(<<c.text>>)) \o terminalEvents(<<>>)
         /\ trace' = IF c.fallback
                     THEN Append(trace, EventWith("fallback", userQuery, contextText, <<>>))
                     ELSE trace
    /\ chatPc' = "ended"
    /\ queryPc' = "resolved"
    /\ caught' = <<>>
    /\ UNCHANGED <<originalText, textChunks, genAI, userQuery, expandedQuery,
                   contextText, useFullKnowledgeBase, queryAttempt, lastError,
                   response, expansionStarted, outcome, thrown>>
    /\ UNCHANGED <<gateVars, streamVars, kbVars, textVars>>

\* The response has ended and the handler has returned: the next request can
\* come.
Close ==
    /\ chatPc = "ended"
    /\ chatPc' = "idle"
    /\ written' = <<>>
    /\ stream' = <<>>
    /\ consumed' = 0
    /\ buffer' = <<>>
    /\ fullText' = <<>>
    /\ delivered' = <<>>
    /\ streamPc' = "idle"
    /\ streamResult' = <<>>
    /\ userQuery' = <<>>
    /\ queryPc' = "idle"
    /\ expandedQuery' = <<>>
    /\ contextText' = <<>>
    /\ useFullKnowledgeBase' = FALSE
    /\ queryAttempt' = 0
    /\ trace' = <<>>
    /\ UNCHANGED <<originalText, textChunks, genAI, lastError, response,
                   expansionStarted, outcome, thrown, caught>>
    /\ UNCHANGED <<gateVars, kbVars, textVars>>

InitChat ==
    /\ GateIdle
    /\ StreamIdle
    /\ ChatIdle
    /\ \E text \in KnowledgeBases :
         /\ originalText = text
         /\ textChunks = chunkText(text, DefaultChunkSize, DefaultOverlap)
    /\ genAI \in BOOLEAN
    /\ userQuery = <<>>
    /\ queryPc = "idle"
    /\ expandedQuery = <<>>
    /\ contextText = <<>>
    /\ useFullKnowledgeBase = FALSE
    /\ queryAttempt = 0
    /\ lastError = NoError
    /\ response = NoResponse
    /\ trace = <<>>
    /\ expansionStarted = FALSE
    /\ outcome = NoOutcome
    /\ thrown = FALSE
    /\ caught = <<>>
    /\ KbIdle
    /\ TextIdle

NextChat ==
    \/ \E q \in Queries : handleStreamingChat(q)
    \/ ImportFails
    \/ processQueryStream
    \/ ExpandAcquire
    \/ \E text \in ExpandTexts : ExpandReturns(text)
    \/ \E error \in ProviderErrors : ExpandThrows(error)
    \/ Retrieve
    \/ GenerateStream
    \/ StreamChunk
    \/ StreamEnd
    \/ StreamFails
    \/ BatchAnswers
    \/ BatchFails
    \/ StreamReturns
    \/ \E error \in ProviderErrors : StreamThrows(error)
    \/ \E text \in OllamaTexts : StreamOllamaReturns(text)
    \/ StreamOllamaThrows
    \/ StreamCatch
    \/ Close
    \/ \E q \in Queries : processQuery(q)
    \/ GenerateAcquire
    \/ \E resp \in Responses : GenerateReturns(resp)
    \/ \E error \in ProviderErrors : GenerateThrows(error)
    \/ \E text \in ApologyTexts : ApologyReturns(text)
    \/ ApologyThrows
    \/ \E text \in OllamaTexts : OllamaReturns(text)
    \/ OllamaThrows
    \/ Catch
    \/ Respond

SpecChat == InitChat /\ [][NextChat]_vars

\* C17. With an empty knowledge base no request reaches the query expander,
\* the remote provider, the local provider or the keyword fallback:
\* processQuery returns the fixed holding message with mode
\* no_knowledge_base, and a streaming request writes that message as its
\* only chunk and then the done event.
EmptyKnowledgeBaseHolds ==
    textChunks = <<>> =>
        /\ trace = <<>>
        /\ activeRequests = 0
        /\ streamPc = "idle"
        /\ delivered = <<>>
        /\ queryPc \in {"idle", "resolved"}
        /\ (queryPc = "resolved" /\ chatPc = "idle") =>
               outcome = Outcome(FixedHoldingMessage, "no_knowledge_base")
        /\ (queryPc = "resolved" /\ chatPc = "ended") =>
               written = <<ChunkEvent(FixedHoldingMessage), DoneEvent>>

\* C17, witness: a streaming request has ended on an empty knowledge base.
EmptyKnowledgeBaseStreamed ==
    /\ textChunks = <<>>
    /\ chatPc = "ended"
    /\ queryPc = "resolved"
    /\ userQuery # <<>>

\* The positions of processQuery after the choice of the context.
AfterRetrieve ==
    { "generateWait", "generateCall", "apologyCall", "ollamaCall", "catch", "resolved" }

RECURSIVE LabelledBlocks(_)
\* The chunks in their order, each under the label of its index counted from
\* 1, with the block separator between two of them.
LabelledBlocks(chunks) ==
    LET last == chunks[Len(chunks)]
        block == <<"[", "qu1", "kuai4", " ">> \o Digits(last.index + 1)
                     \o <<"]", "\n">> \o last.text IN
    IF Len(chunks) = 1 THEN block
    ELSE LabelledBlocks(SubSeq(chunks, 1, Len(chunks) - 1))
             \o <<"\n", "\n", "-", "-", "-", "\n", "\n">> \o block

\* The context and the mode that go with the chunks retrieved.
ContextFollows(relevantChunks) ==
    /\ useFullKnowledgeBase <=> relevantChunks = <<>>
    /\ contextText = IF relevantChunks = <<>> THEN originalText
                     ELSE LabelledBlocks(relevantChunks)
    /\ (queryPc = "resolved" /\ outcome.mode \in {"rag", "full_rag"}) =>
           outcome.mode = IF relevantChunks = <<>> THEN "full_rag" ELSE "rag"
    /\ (queryPc = "resolved" /\ EventsOf("fallback") = {}
            /\ outcome.mode \notin {"config_error", "error"}) =>
           outcome.mode \in {"rag", "full_rag"}

\* C18. With a non-empty knowledge base the context is the whole text, and
\* the mode of an answer full_rag, exactly when retrieval over the expanded
\* query returns no chunk; otherwise the context is the retrieved chunks in
\* retrieval order, labelled and separated, and the mode of an answer is rag.
ContextMatchesRetrieval ==
    (textChunks # <<>> /\ queryPc \in AfterRetrieve) =>
        ContextFollows(retrieveRelevantChunks(expandedQuery, textChunks, TopK))

\* C18, witness: an answer from two chunks retrieved against their order in
\* the knowledge base.
ContextOfTwoChunks ==
    /\ queryPc = "resolved"
    /\ outcome.mode = "rag"
    /\ Len(textChunks) >= 2
    /\ Includes(contextText, <<"[", "qu1", "kuai4", " ", "2", "]">>)
    /\ indexOf(contextText, <<"[", "qu1", "kuai4", " ", "2", "]">>)
           < indexOf(contextText, <<"[", "qu1", "kuai4", " ", "1", "]">>)

\* The tokens of a query: its words of more than one character after the stop
\* words are taken out.
Tokens(query) == SelectSeq(Words(RemoveStopWords(toLowerCase(query), 1)), LongWord)

\* No token of the query occurs in a chunk of the knowledge base.
NoTokenOccurs(query) ==
    \A i \in 1..Len(Tokens(query)) : \A k \in 1..Len(textChunks) :
        ~Includes(toLowerCase(textChunks[k].text), Tokens(query)[i])

\* C19. For a non-empty knowledge base and a query with at least one token,
\* none of which occurs in any chunk, retrieval returns no chunk, the context
\* is the whole text and the mode of an answer is full_rag.
UnmatchedQueryUsesFullCorpus ==
    (/\ textChunks # <<>>
     /\ queryPc \in AfterRetrieve
     /\ Tokens(expandedQuery) # <<>>
     /\ NoTokenOccurs(expandedQuery)) =>
        /\ retrieveRelevantChunks(expandedQuery, textChunks, TopK) = <<>>
        /\ contextText = originalText
        /\ useFullKnowledgeBase
        /\ (queryPc = "resolved" /\ outcome.mode \in {"rag", "full_rag"}) =>
               outcome.mode = "full_rag"

\* The places of the done and error events in the response.
TerminalEvents == { i \in 1..Len(written) : written[i].type \in {"done", "error"} }

\* C20. The events written to a streaming response are chunk events followed
\* by exactly one terminal event, done or error: nothing is written after
\* it, and no terminal event is written before the response ends.
StreamEndsOnce ==
    /\ \A i \in 1..Len(written) : written[i].type \in {"chunk", "done", "error"}
    /\ chatPc = "ended" => (written # <<>> /\ TerminalEvents = {Len(written)})
    /\ chatPc # "ended" => TerminalEvents = {}
    /\ chatPc = "idle" => written = <<>>

\* C20, witness: a response of two chunk events or more and the done event.
StreamedAndDone ==
    /\ chatPc = "ended"
    /\ Len(written) >= 3
    /\ written[Len(written)].type = "done"

(***************************************************************************)
(* services/rag.js: loadKnowledgeBase, updateKnowledgeBase and              *)
(* expandKnowledgeBaseAsync                                                 *)
(***************************************************************************)
\* What analyzeAndExpandKnowledgeBase returns: null after any failure, or the
\* two fields of the provider's JSON.
NoAnalysis == [ok |-> FALSE, matchedSection |-> <<>>, expandedKeywords |-> <<>>]

Analysis(section, keywords) ==
    [ok |-> TRUE, matchedSection |-> section, expandedKeywords |-> keywords]

\* text.split('\n')
Lines(text) == Split(text, <<Lit("\n")>>)

RECURSIVE JoinWith(_, _)
\* Array.prototype.join(sep)
JoinWith(ss, sep) ==
    IF ss = <<>> THEN <<>>
    ELSE IF Len(ss) = 1 THEN ss[1]
    ELSE ss[1] \o sep \o JoinWith(Tail(ss), sep)

\* analysis.matchedSection.trim().substring(0, 20)
SectionKey(analysis) ==
    Slice(Trim(analysis.matchedSection), 1, Min(20, Len(Trim(analysis.matchedSection))))

\* The lines from two before line i to nine after it, each with its newline.
SectionAround(lines, i) ==
    Concat([j \in 1..(Min(Len(lines), i + 9) - Max(1, i - 2) + 1) |->
               lines[Max(1, i - 2) + j - 1] \o <<"\n">>])

RECURSIVE MatchedLine(_, _, _, _, _)
\* The loop over the lines: the line of the best section, 0 when no line
\* with the key has a section that scores above 0.
MatchedLine(lines, analysis, i, matchedIndex, bestScore) ==
    IF i > Len(lines) THEN matchedIndex
    ELSE IF /\ Includes(lines[i], SectionKey(analysis))
            /\ calculateRelevanceScore(analysis.matchedSection, SectionAround(lines, i))
                   > bestScore
         THEN MatchedLine(lines, analysis, i + 1, i,
                  calculateRelevanceScore(analysis.matchedSection, SectionAround(lines, i)))
         ELSE MatchedLine(lines, analysis, i + 1, matchedIndex, bestScore)

\* /^\d+\.|^[A-Za-z].*[:fw:]/ on one line
HeadingLine(line) ==
    \/ MatchFrom(<<Plus(DigitChars), Lit(".")>>, 1, line, 1) > 0
    \/ /\ line # <<>>
       /\ line[1] \in Letters
       /\ \E j \in 2..Len(line) : line[j] \in Colons

RECURSIVE SectionStart(_, _, _)
\* The loop upwards from the matched line: the nearest heading above, or
\* the highest blank line met when there is none.
SectionStart(lines, i, start) ==
    IF i < 1 THEN start
    ELSE IF HeadingLine(lines[i]) \/ Trim(lines[i]) = <<>>
         THEN IF Trim(lines[i]) # <<>> THEN i ELSE SectionStart(lines, i - 1, i)
         ELSE SectionStart(lines, i - 1, start)

\* analysis.expandedKeywords.split(/\s+/).filter(k => k.length > 0)
Keywords(analysis) ==
    SelectSeq(Split(analysis.expandedKeywords, <<Plus(WhiteSpace)>>), AnyWord)

KeywordsLabel == <<"xiang1", "guan1", "guan1", "jian4", "zi4", "fw:">>

\* The note put after a title, and the line put under a title with a note.
TitleNote(keywords) ==
    <<" ", "fw(">> \o KeywordsLabel \o JoinWith(keywords, <<"fw~">>) \o <<"fw)">>

KeywordLine(keywords) ==
    <<" ", " ", " ", "-", " ">> \o KeywordsLabel \o JoinWith(keywords, <<"fw~">>)

\* The lines with the keywords added at line s.
WithKeywords(lines, s, keywords) ==
    IF ~Includes(lines[s], <<"fw(">>) /\ ~Includes(lines[s], <<"(">>)
    THEN [lines EXCEPT ![s] = lines[s] \o TitleNote(keywords)]
    ELSE IF s + 1 <= Len(lines) /\ Trim(lines[s + 1]) # <<>>
         THEN (SubSeq(lines, 1, s) \o <<KeywordLine(keywords)>>)
                  \o SubSeq(lines, s + 1, Len(lines))
         ELSE SubSeq(lines, 1, s) \o <<KeywordLine(keywords)>>
                  \o SubSeq(lines, s + 2, Len(lines))

\* The text of the lines with the keywords at the start of the section of
\* line m.
UpdatedAt(lines, m, keywords) ==
    JoinWith(WithKeywords(lines, SectionStart(lines, m, m), keywords), <<"\n">>)

\* expandKnowledgeBaseAsync between the analysis and updateKnowledgeBase:
\* whether it goes on, and the text it passes.
updatedText(text, analysis) ==
    IF \/ ~analysis.ok
       \/ analysis.matchedSection = <<>>
       \/ analysis.expandedKeywords = <<>>
       \/ MatchedLine(Lines(text), analysis, 1, 0, 0) = 0
       \/ Keywords(analysis) = <<>>
    THEN [found |-> FALSE, text |-> <<>>]
    ELSE [found |-> TRUE,
          text |-> UpdatedAt(Lines(text), MatchedLine(Lines(text), analysis, 1, 0, 0),
                             Keywords(analysis))]

\* The variables of a request, which the knowledge base's writers leave alone.
requestVars ==
    <<genAI, userQuery, queryPc, expandedQuery, contextText, useFullKnowledgeBase,
      queryAttempt, lastError, response, trace, expansionStarted, outcome, thrown,
      caught>>

\* The texts uploaded, and the analyses the provider returns: none, one of a
\* line of each text, one of no line, one without a keyword.
UploadTexts ==
    { <<"-", "\n", "-", " ", "yun4", "fei4", "3", "0", "yuan2", "fw.">>,
      <<"1", ".", " ", "yun4", "fei4", " ", "(", "NT", ")", "\n", "mian3", "yun4">> }

Analyses ==
    { NoAnalysis,
      Analysis(<<"ke4", "fu2", "dian4", "hua4">>, <<"lian2", "luo4", " ", "zhuan1", "xian4">>),
      Analysis(<<" ", "yun4", "fei4">>, <<"you2", "zi1">>),
      Analysis(<<"bao3", "gu4">>, <<"wei2", "xiu1">>),
      Analysis(<<"yun4", "fei4">>, <<" ">>) }

\* textChunks = chunkText(text), and the assignment left out.
newChunksStale(text) == textChunks

newChunks(text) == chunkText(text, DefaultChunkSize, DefaultOverlap)

\* updateKnowledgeBase(text) up to its await of fs.writeFile.
updateStarts(u, text) ==
    update' = [update EXCEPT ![u] =
                  [pc |-> "writing", text |-> text, success |-> FALSE, chunksCount |-> 0]]

\* The upload route calls updateKnowledgeBase(text).
Upload(text) ==
    /\ loadPc = "loaded"
    /\ update["upload"].pc # "writing"
    /\ updateStarts("upload", text)
    /\ UNCHANGED <<file, loadPc, expansion, originalText, textChunks>>
    /\ UNCHANGED <<requestVars, gateVars, streamVars, chatVars, textVars>>

\* fs.writeFile has written the file: updateKnowledgeBase replaces the text
\* and the chunks and returns { success: true, chunksCount }.  The expansion
\* that called it ends.
WriteSucceeds(u) ==
    /\ update[u].pc = "writing"
    /\ file' = Stored(update[u].text)
    /\ originalText' = update[u].text
    /\ textChunks' = newChunks(update[u].text)
    /\ update' = [update EXCEPT ![u] =
                     [pc |-> "done", text |-> update[u].text, success |-> TRUE,
                      chunksCount |-> Len(newChunks(update[u].text))]]
    /\ expansion' = IF u = "expansion"
                    THEN [expansion EXCEPT !.pc = "ended", !.log = "expanded"]
                    ELSE expansion
    /\ UNCHANGED loadPc
    /\ UNCHANGED <<requestVars, gateVars, streamVars, chatVars, textVars>>

\* The catch block of loadKnowledgeBase, which empties the knowledge base,
\* and the catch block of updateKnowledgeBase, which assigns nothing.
updateCatchClears ==
    /\ originalText' = <<>>
    /\ textChunks' = <<>>

updateCatch == UNCHANGED <<originalText, textChunks>>

\* The catch block of expandKnowledgeBaseAsync, which logs the error, and
\* one that throws it on to processQuery's caller.
expansionCatchRethrows ==
    /\ thrown' = TRUE
    /\ outcome' = NoOutcome

expansionCatch == UNCHANGED <<outcome, thrown>>

\* fs.writeFile fails: updateKnowledgeBase throws.  The upload route gets the
\* error; expandKnowledgeBaseAsync catches and logs it.
WriteFails(u) ==
    /\ update[u].pc = "writing"
    /\ update' = [update EXCEPT ![u] =
                     [pc |-> "done", text |-> update[u].text, success |-> FALSE,
                      chunksCount |-> 0]]
    /\ expansion' = IF u = "expansion"
                    THEN [expansion EXCEPT !.pc = "ended", !.log = "error"]
                    ELSE expansion
    /\ updateCatch
    /\ IF u = "expansion" THEN expansionCatch ELSE UNCHANGED <<outcome, thrown>>
    /\ UNCHANGED <<file, loadPc>>
    /\ UNCHANGED <<genAI, userQuery, queryPc, expandedQuery, contextText,
                   useFullKnowledgeBase, queryAttempt, lastError, response, trace,
                   expansionStarted, caught>>
    /\ UNCHANGED <<gateVars, streamVars, chatVars, textVars>>

\* loadKnowledgeBase() is called again and awaits the file system.
loadKnowledgeBase ==
    /\ loadPc = "loaded"
    /\ loadPc' = "loading"
    /\ UNCHANGED <<file, update, expansion, originalText, textChunks>>
    /\ UNCHANGED <<requestVars, gateVars, streamVars, chatVars, textVars>>

\* The file is read, or found missing: the text and the chunks are replaced.
LoadReturns ==
    /\ loadPc = "loading"
    /\ loadPc' = "loaded"
    /\ originalText' = IF file.exists THEN file.text ELSE <<>>
    /\ textChunks' = IF file.exists THEN newChunks(file.text) ELSE <<>>
    /\ UNCHANGED <<file, update, expansion>>
    /\ UNCHANGED <<requestVars, gateVars, streamVars, chatVars, textVars>>

\* The file system fails: the catch block empties the knowledge base.
LoadFails ==
    /\ loadPc = "loading"
    /\ loadPc' = "loaded"
    /\ originalText' = <<>>
    /\ textChunks' = <<>>
    /\ UNCHANGED <<file, update, expansion>>
    /\ UNCHANGED <<requestVars, gateVars, streamVars, chatVars, textVars>>

\* The expansion processQuery started gets its analysis and runs up to its
\* next await: it ends without a change, or calls updateKnowledgeBase with
\* the text made from the knowledge base as it is now.
AnalysisReturns(analysis) ==
    /\ expansionStarted
    /\ expansion.pc = "idle"
    /\ IF updatedText(originalText, analysis).found
       THEN /\ expansion' = [pc |-> "writing", log |-> "none", base |-> originalText]
            /\ updateStarts("expansion", updatedText(originalText, analysis).text)
       ELSE /\ expansion' = [pc |-> "ended", log |-> "skipped", base |-> originalText]
            /\ UNCHANGED update
    /\ UNCHANGED <<file, loadPc, originalText, textChunks>>
    /\ UNCHANGED <<requestVars, gateVars, streamVars, chatVars, textVars>>

\* The questions, provider answers and provider errors of the requests made
\* while the knowledge base is written.
KbQueries == { <<"fw?">>, <<"yun4", "fei4">> }

KbResponses == { [finishReason |-> "STOP", text |-> <<"o", "k">>] }

KbErrors == { Err(500, StrNetwork) }

\* The module has been loaded from a knowledge-base file, or without one.
InitKb ==
    /\ GateIdle
    /\ StreamIdle
    /\ ChatIdle
    /\ \E text \in KnowledgeBases :
         /\ originalText = text
         /\ textChunks = chunkText(text, DefaultChunkSize, DefaultOverlap)
    /\ genAI = TRUE
    /\ userQuery = <<>>
    /\ queryPc = "idle"
    /\ expandedQuery = <<>>
    /\ contextText = <<>>
    /\ useFullKnowledgeBase = FALSE
    /\ queryAttempt = 0
    /\ lastError = NoError
    /\ response = NoResponse
    /\ trace = <<>>
    /\ expansionStarted = FALSE
    /\ outcome = NoOutcome
    /\ thrown = FALSE
    /\ caught = <<>>
    /\ KbIdle
    /\ TextIdle

NextKb ==
    \/ \E text \in UploadTexts : Upload(text)
    \/ \E u \in Updaters : WriteSucceeds(u)
    \/ \E u \in Updaters : WriteFails(u)
    \/ loadKnowledgeBase
    \/ LoadReturns
    \/ LoadFails
    \/ \E analysis \in Analyses : AnalysisReturns(analysis)
    \/ \E q \in KbQueries : processQuery(q)
    \/ ExpandAcquire
    \/ ExpandReturns(<<>>)
    \/ \E error \in KbErrors : ExpandThrows(error)
    \/ Retrieve
    \/ GenerateAcquire
    \/ \E resp \in KbResponses : GenerateReturns(resp)
    \/ \E error \in KbErrors : GenerateThrows(error)
    \/ Catch

SpecKb == InitKb /\ [][NextKb]_vars

(***************************************************************************)
(* Claims about the knowledge base                                          *)
(***************************************************************************)
\* C21: at every point where another request can run, the chunks are
\* chunkText of the text the module holds, whichever of load, upload and
\* expansion wrote last.
ChunksDerivedFromText ==
    textChunks = chunkText(originalText, DefaultChunkSize, DefaultOverlap)

\* C21, witness: an upload and an expansion have each replaced the knowledge
\* base, and it is not empty.
UploadedAndExpanded ==
    /\ update["upload"].success
    /\ expansion.log = "expanded"
    /\ textChunks # <<>>

\* C22: a call of updateKnowledgeBase that ends either has written the file,
\* holds the new text and its chunks and returns their number, or has not
\* written the file and has left the text and the chunks as they were.
UpdateEnds(u) ==
    /\ update[u].pc = "writing"
    /\ update'[u].pc = "done"

UpdateAllOrNothing ==
    [][\A u \in Updaters :
         UpdateEnds(u) =>
             IF update'[u].success
             THEN /\ file' = Stored(update[u].text)
                  /\ originalText' = update[u].text
                  /\ textChunks' = chunkText(update[u].text, DefaultChunkSize, DefaultOverlap)
                  /\ update'[u].chunksCount = Len(textChunks')
             ELSE /\ file' = file
                  /\ originalText' = originalText
                  /\ textChunks' = textChunks]_vars

\* C22, witness: the expansion's update has succeeded with the number of the
\* chunks now held, and an upload after it has failed.
UpdateFailedAfterSuccess ==
    /\ update["expansion"].success
    /\ update["expansion"].chunksCount = Len(textChunks)
    /\ originalText = update["expansion"].text
    /\ textChunks # <<>>
    /\ update["upload"].pc = "done"
    /\ ~update["upload"].success

\* C23: the step of processQuery that starts the expansion is the step that
\* returns the full-corpus outcome, with the expansion still before its
\* analysis; and no later step, of the expansion or of anything else, changes
\* the outcome returned or raises an error to the caller.
ExpansionStarts ==
    /\ ~expansionStarted
    /\ expansionStarted'

ExpansionIsDetached ==
    [][/\ ExpansionStarts =>
              /\ queryPc' = "resolved"
              /\ outcome'.mode = "full_rag"
              /\ outcome'.answer # <<>>
              /\ expansion' = NoExpansion
       /\ queryPc = "resolved" =>
              /\ queryPc' = "resolved"
              /\ outcome' = outcome
              /\ thrown' = thrown]_vars

\* C23, witness: the full-corpus outcome has been returned, and the
\* expansion has since failed at its storage write.
ExpansionFailedAfterReturn ==
    /\ queryPc = "resolved"
    /\ outcome.mode = "full_rag"
    /\ ~thrown
    /\ expansion.log = "error"
    /\ ~update["expansion"].success

(***************************************************************************)
(* Claims about expandQueryWithAI                                           *)
(***************************************************************************)
\* C24: expandQueryWithAI ends in the retrieval and never in an error of the
\* request: without a provider and after every failing call the query is the
\* one asked, and after an answer it is the query, a space and the terms.
InExpandQuery == queryPc \in {"expandWait", "expandCall"}

ExpandQueryIsBestEffort ==
    [][/\ InExpandQuery =>
              /\ queryPc' \in {"expandWait", "expandCall", "retrieve"}
              /\ thrown' = thrown
              /\ outcome' = outcome
              /\ userQuery' = userQuery
       /\ (\E error \in ProviderErrors : ExpandThrows(error)) =>
              expandedQuery' = userQuery
       /\ (queryPc = "idle" /\ queryPc' = "retrieve") =>
              /\ ~genAI
              /\ expandedQuery' = userQuery'
       /\ \A text \in ExpandTexts :
              ExpandReturns(text) =>
                  /\ queryPc' = "retrieve"
                  /\ expandedQuery' = (userQuery \o <<" ">>) \o Trim(text)]_vars

\* C24, witness: the provider was called for the terms and failed, and the
\* retrieval starts with the query as it was asked.
ExpandFailedQueryKept ==
    /\ queryPc = "retrieve"
    /\ genAI
    /\ trace # <<>>
    /\ trace[Len(trace)] = Event("expand")
    /\ expandedQuery = userQuery
    /\ ~thrown

(***************************************************************************)
(* utils/textProcessor.js: calls of chunkText, retrieveRelevantChunks and   *)
(* calculateRelevanceScore                                                  *)
(***************************************************************************)
\* The longest text chunked, the small chunk size and overlap beside the
\* defaults, the most chunks retrieved from and the largest topK.
MaxTextLen == 5
SmallChunkSize == 3
SmallOverlap == 1
MaxChunks == 3
MaxTopK == 3

TextChars == {"a", " ", "\n", "fw."}

\* The texts of at most n characters.
TextsUpTo(n) == UNION { [1..k -> TextChars] : k \in 0..n }

ChunkSizes == { <<SmallChunkSize, SmallOverlap>>, <<DefaultChunkSize, DefaultOverlap>> }

Called(op, query, text, chunks, chunkSize, overlap, topK) ==
    [op |-> op, pc |-> "called", query |-> query, text |-> text, chunks |-> chunks,
     chunkSize |-> chunkSize, overlap |-> overlap, topK |-> topK, result |-> <<>>,
     score |-> 0]

ChunkCalls ==
    { Called("chunkText", <<>>, text, <<>>, size[1], size[2], 0) :
          text \in TextsUpTo(MaxTextLen), size \in ChunkSizes }

\* The chunks retrieved from: texts that score alike and differently, with
\* the indexes chunkText gives them.
RetrievalQueries ==
    { <<"tui4", "huo4">>, <<"T", "u", "i", " ", "yun4", "fei4">>, <<"fw?">> }

RetrievalTexts ==
    { <<"tui4", "huo4">>, <<"yun4", "fei4">>, <<"x">>,
      <<"tui4", "huo4", " ", "t", "u", "i", " ", "tui4", "huo4">> }

Indexed(texts) == [k \in 1..Len(texts) |-> [text |-> texts[k], index |-> k - 1]]

ChunkLists ==
    { Indexed(texts) : texts \in UNION { [1..n -> RetrievalTexts] : n \in 0..MaxChunks } }

RetrieveCalls ==
    { Called("retrieveRelevantChunks", query, <<>>, chunks, 0, 0, topK) :
          query \in RetrievalQueries, chunks \in ChunkLists, topK \in 0..MaxTopK }

\* A text that starts with "ab" and has "yx" after its first TitleWindow
\* characters.
LongText == (<<"a", "b">> \o [k \in 1..(TitleWindow - 2) |-> "z"]) \o <<"y", "x">>

ScoreQueries ==
    { <<"a", "b">>, <<"a", "b", " ", "z", "z">>,
      <<"a", "b", " ", "x", "a", " ", "x", "a", "b", " ", "y", "x", "a">> }

ScoreTexts == { <<"a", "b">>, <<"z", "a", "b", "y", "x">>, LongText }

ScoreCalls ==
    { Called("calculateRelevanceScore", query, text, <<>>, 0, 0, 0) :
          query \in ScoreQueries, text \in ScoreTexts }

\* The questions and contexts of generateFallbackAnswer: questions with two
\* keywords of the table, with a word of a later line, with a word of no
\* line and without a word; contexts with bullets, blank lines and a line
\* longer than the answer may be.
FallbackQueries ==
    { <<"dian4", "hua4", " ", "tui4", "huo4">>, <<"E", "m", "a", "i", "l">>,
      <<"yun4", "fei4">>, <<"bao3", "gu4">>, <<"fw?">> }

LongLine == <<"yun4", "fei4">> \o [k \in 1..FallbackMaxLength |-> "z"]

FallbackContexts ==
    { <<>>, <<" ", "\n", "\n">>,
      <<"tui4", "kuan3", "\n", " ", "-", " ", " ", "yun4", "fei4", " ", "\n", "-", "yun4", "fei4">>,
      <<"-", " ", "x", "\n">> \o LongLine }

FallbackCalls ==
    { Called("generateFallbackAnswer", query, text, <<>>, 0, 0, 0) :
          query \in FallbackQueries, text \in FallbackContexts }

TextCalls == ChunkCalls \cup RetrieveCalls \cup ScoreCalls \cup FallbackCalls

Returns(returned) == call' = [call EXCEPT !.pc = "returned", !.result = returned]

\* chunkText(text, chunkSize, overlap) returns.
ChunkTextReturns ==
    /\ call.op = "chunkText"
    /\ call.pc = "called"
    /\ Returns(chunkText(call.text, call.chunkSize, call.overlap))
    /\ UNCHANGED <<gateVars, streamVars, queryVars, chatVars, kbVars>>

\* retrieveRelevantChunks(query, chunks, topK) returns.
RetrieveReturns ==
    /\ call.op = "retrieveRelevantChunks"
    /\ call.pc = "called"
    /\ Returns(retrieveRelevantChunks(call.query, call.chunks, call.topK))
    /\ UNCHANGED <<gateVars, streamVars, queryVars, chatVars, kbVars>>

\* calculateRelevanceScore(query, text) returns.
ScoreReturns ==
    /\ call.op = "calculateRelevanceScore"
    /\ call.pc = "called"
    /\ call' = [call EXCEPT !.pc = "returned",
                            !.score = calculateRelevanceScore(call.query, call.text)]
    /\ UNCHANGED <<gateVars, streamVars, queryVars, chatVars, kbVars>>

\* generateFallbackAnswer(query, contextText) returns.
FallbackReturns ==
    /\ call.op = "generateFallbackAnswer"
    /\ call.pc = "called"
    /\ Returns(generateFallbackAnswer(call.query, call.text))
    /\ UNCHANGED <<gateVars, streamVars, queryVars, chatVars, kbVars>>

\* The tokens of the query that occur in the text.
MatchedTokens(query, text) ==
    { queryWords(query)[k] : k \in { j \in 1..Len(queryWords(query)) :
                                       Includes(toLowerCase(text), queryWords(query)[j]) } }

\* calculateRelevanceScore(query, text + w) for a token w of the query that
\* occurs in the text, after calculateRelevanceScore(query, text).
ScoreAppended(w) ==
    /\ call.op = "calculateRelevanceScore"
    /\ call.pc = "returned"
    /\ Len(call.text) <= Len(LongText)
    /\ w \in MatchedTokens(call.query, call.text)
    /\ call' = [call EXCEPT !.text = call.text \o w,
                            !.score = calculateRelevanceScore(call.query, call.text \o w)]
    /\ UNCHANGED <<gateVars, streamVars, queryVars, chatVars, kbVars>>

InitText ==
    /\ GateIdle
    /\ StreamIdle
    /\ ChatIdle
    /\ QueryIdle
    /\ KbIdle
    /\ call \in TextCalls

NextText ==
    \/ ChunkTextReturns
    \/ RetrieveReturns
    \/ ScoreReturns
    \/ FallbackReturns
    \/ \E w \in UNION { MatchedTokens(query, LongText) : query \in ScoreQueries } :
           ScoreAppended(w)

SpecText == InitText /\ [][NextText]_vars

(***************************************************************************)
(* Claims about utils/textProcessor.js                                      *)
(***************************************************************************)
RetrieveReturned ==
    /\ call.op = "retrieveRelevantChunks"
    /\ call.pc = "returned"

\* The chunk of the call that has this index, with its score.
ScoreOfIndex(index) ==
    calculateRelevanceScore(call.query,
        call.chunks[CHOOSE k \in 1..Len(call.chunks) : call.chunks[k].index = index].text)

ReturnedIndexes == { call.result[i].index : i \in 1..Len(call.result) }

\* C25: what retrieveRelevantChunks returns is sorted by score from high to
\* low and, where scores are equal, by index; holds no score of 0 or less and
\* at most topK entries; and is made of the chunks given, with their scores,
\* none of those left out with a positive score scoring higher than one
\* returned, or left out while fewer than topK are returned.
RetrievalIsRanked ==
    RetrieveReturned =>
        /\ Len(call.result) <= call.topK
        /\ \A i \in 1..Len(call.result) :
              /\ call.result[i].score > 0
              /\ \E k \in 1..Len(call.chunks) :
                     /\ call.chunks[k].index = call.result[i].index
                     /\ call.chunks[k].text = call.result[i].text
              /\ call.result[i].score = ScoreOfIndex(call.result[i].index)
        /\ \A i, j \in 1..Len(call.result) :
              i < j =>
                  \/ call.result[i].score > call.result[j].score
                  \/ /\ call.result[i].score = call.result[j].score
                     /\ call.result[i].index < call.result[j].index
        /\ \A k \in 1..Len(call.chunks) :
              (call.chunks[k].index \notin ReturnedIndexes
                   /\ ScoreOfIndex(call.chunks[k].index) > 0) =>
                  /\ Len(call.result) = call.topK
                  /\ \A i \in 1..Len(call.result) :
                         call.result[i].score >= ScoreOfIndex(call.chunks[k].index)

\* C25, witness: three chunks, two of them with the same score and one with
\* a higher score after them, and the two best returned.
RankedWithTie ==
    /\ RetrieveReturned
    /\ Len(call.chunks) = 3
    /\ call.topK = 2
    /\ ScoreOfIndex(0) = ScoreOfIndex(1)
    /\ ScoreOfIndex(2) > ScoreOfIndex(1)
    /\ Len(call.result) = 2
    /\ call.result[1].index = 2
    /\ call.result[2].index = 0

ChunkTextReturned ==
    /\ call.op = "chunkText"
    /\ call.pc = "returned"

\* C26: the chunks chunkText returns carry the indexes 0, 1, 2, ... in the
\* order returned, also when blank paragraphs were dropped.
IndexesAreContiguous ==
    ChunkTextReturned =>
        \A i \in 1..Len(call.result) : call.result[i].index = i - 1

\* The text holds a character that is not white space.
HasContent(text) == \E i \in 1..Len(text) : text[i] \notin WhiteSpace

\* t is s.trim() for a run s of consecutive characters of the text.
TrimmedPieceOf(text, t) ==
    \E from \in 1..(Len(text) + 1) : \E to \in 0..Len(text) :
        t = Trim(Slice(text, from, to))

\* C27 as stated: every text that is not empty gives a chunk, and every chunk
\* is the trimmed text of a run of consecutive characters of the text.
NonEmptyTextGivesChunks ==
    ChunkTextReturned =>
        /\ call.text # <<>> => call.result # <<>>
        /\ \A i \in 1..Len(call.result) : TrimmedPieceOf(call.text, call.result[i].text)

\* C27 as amended: every text with a character that is not white space
\* gives a chunk, and every chunk is the trimmed text of a run of
\* consecutive characters of the text.
TextWithContentGivesChunks ==
    ChunkTextReturned =>
        /\ HasContent(call.text) => call.result # <<>>
        /\ \A i \in 1..Len(call.result) : TrimmedPieceOf(call.text, call.result[i].text)

\* C27, witness: a text of two paragraphs, chunked with the small chunk
\* size, has given two chunks or more.
ChunksOfParagraphs ==
    /\ ChunkTextReturned
    /\ call.chunkSize = SmallChunkSize
    /\ Includes(call.text, <<"a", "\n", "\n", "a">>)
    /\ Len(call.result) >= 2

\* C28: no chunk chunkText returns is longer than the chunk size.
ChunksWithinSize ==
    ChunkTextReturned =>
        \A i \in 1..Len(call.result) : Len(call.result[i].text) <= call.chunkSize

\* C29: the score of a text with one more occurrence of a token of the query
\* that it already holds is not smaller than the score of the text.
TokenAppended ==
    /\ call.op = "calculateRelevanceScore"
    /\ call.pc = "returned"
    /\ call'.pc = "returned"
    /\ call'.query = call.query
    /\ \E w \in MatchedTokens(call.query, call.text) : call'.text = call.text \o w

ScoreIsMonotone == [][TokenAppended => call'.score >= call.score]_vars

FallbackReturned ==
    /\ call.op = "generateFallbackAnswer"
    /\ call.pc = "returned"

\* The lines of the context that are not blank.
ContextLines == SelectSeq(Lines(call.text), NonBlankLine)

\* Line i of the context holds a token of the query: it scores above zero.
HoldsToken(i) == MatchedTokens(call.query, ContextLines[i]) # {}

\* Entry k is the first of keywordMap whose keyword the query includes.
FirstMatching(k) ==
    /\ Includes(toLowerCase(call.query), keywordMap[k].keyword)
    /\ \A j \in 1..(k - 1) : ~Includes(toLowerCase(call.query), keywordMap[j].keyword)

\* Line i scores highest of the lines of the context.
ScoresHighest(i) ==
    \A j \in 1..Len(ContextLines) :
        calculateRelevanceScore(call.query, ContextLines[i])
            >= calculateRelevanceScore(call.query, ContextLines[j])

\* The line without the white space around it and the bullet before it, cut
\* to the length allowed.
Formatted(line) ==
    Slice(StripBullet(Trim(line)), 1, Min(FallbackMaxLength, Len(StripBullet(Trim(line)))))

\* C30: generateFallbackAnswer returns the answer of the first entry of the
\* table whose keyword the query includes; without one, the formatted line
\* that scores highest, if a line holds a token of the query; and if no line
\* does, the holding message with the contact line.
FallbackDecidesInOrder ==
    FallbackReturned =>
        IF \E k \in 1..Len(keywordMap) : FirstMatching(k)
        THEN \E k \in 1..Len(keywordMap) :
                 /\ FirstMatching(k)
                 /\ call.result = keywordMap[k].answer
        ELSE IF \E i \in 1..Len(ContextLines) : HoldsToken(i)
             THEN \E i \in 1..Len(ContextLines) :
                      /\ ScoresHighest(i)
                      /\ call.result = Formatted(ContextLines[i])
             ELSE call.result = DefaultFallbackMessage

(***************************************************************************)
(* Claims about the tiers, the error classes and the answers                *)
(***************************************************************************)
\* The request has resolved with the text the local provider returned.
AnsweredByOllama ==
    /\ queryPc = "resolved"
    /\ trace # <<>>
    /\ trace[Len(trace)].e = "ollamaReturned"
    /\ outcome.answer = trace[Len(trace)].text

\* C31: an outcome whose answer the local provider produced does not carry
\* the mode of an answer of the remote provider, rag or full_rag.
ModeNamesTheTier == AnsweredByOllama => outcome.mode \notin {"rag", "full_rag"}

ScoreReturned ==
    /\ call.op = "calculateRelevanceScore"
    /\ call.pc = "returned"

RECURSIVE SumOccurring(_, _, _)
\* For each token from token k on that occurs in the text, twice its
\* occurrences, and 3 more if the first starts in the first TitleWindow
\* characters; nothing for a token that does not occur.
SumOccurring(words, k, textLower) ==
    IF k > Len(words) THEN 0
    ELSE (IF Includes(textLower, words[k]) /\ Len(words[k]) > 0
          THEN CountMatches(textLower, words[k]) * 2
                   + (IF indexOf(textLower, words[k]) < TitleWindow THEN 3 ELSE 0)
          ELSE 0)
             + SumOccurring(words, k + 1, textLower)

\* C32: the score is the sum, over the tokens of the query that occur in
\* the text, of twice the occurrences plus the bonus of an early first
\* occurrence; a text with none of the tokens scores 0.
AbsentTokenScoresNothing ==
    ScoreReturned =>
        /\ call.score = SumOccurring(queryWords(call.query), 1, toLowerCase(call.text))
        /\ MatchedTokens(call.query, call.text) = {} => call.score = 0

\* The error carries a rate-limit signal and the word quota.
BothSignals(error) ==
    /\ RateLimitSignal(error)
    /\ Includes(toLowerCase(error.message), StrQuota)

\* C33: a generation call that failed with both a rate-limit and a quota
\* signal is retried as a rate limit; the local provider is not called for
\* it; generateAnswer throws RATE_LIMIT_EXCEEDED when the retries are used
\* up, and the outcome is the keyword answer in the mode rate_limit_fallback.
AmbiguousErrorIsRateLimited ==
    BothSignals(lastError) =>
        /\ queryPc \in {"generateWait", "generateCall", "catch", "resolved"}
        /\ EventsOf("ollama") = {}
        /\ queryPc = "generateWait" => queryAttempt >= 1
        /\ queryPc = "catch" =>
               /\ caught = StrRateLimitExceeded
               /\ Cardinality(EventsOf("generate")) = GenerateAnswerOptions.maxRetries + 1
        /\ queryPc = "resolved" =>
               /\ outcome.mode = "rate_limit_fallback"
               /\ outcome.answer = generateFallbackAnswer(userQuery, contextText) \o RateLimitNote
               /\ Cardinality(EventsOf("generate")) = GenerateAnswerOptions.maxRetries + 1

\* C33, witness: every call failed with status 429 and a quota message, and
\* the request resolved with the keyword answer.
AmbiguousErrorAnswered ==
    /\ queryPc = "resolved"
    /\ lastError = Err(429, StrQuotaExceeded)
    /\ outcome.mode = "rate_limit_fallback"
    /\ EventsOf("ollama") = {}

\* The knowledge base is the text, or an expansion made from the text.
DerivedFrom(text) ==
    \/ originalText = text
    \/ \E analysis \in Analyses :
           /\ updatedText(text, analysis).found
           /\ originalText = updatedText(text, analysis).text

\* C34: once an upload has succeeded and the expansion has ended, the
\* knowledge base held is the uploaded text or an expansion made from it,
\* not an expansion made from the text before the upload.
UploadIsNotLost ==
    (/\ update["upload"].pc = "done"
     /\ update["upload"].success
     /\ expansion.pc = "ended"
     /\ loadPc = "loaded"
     /\ originalText # <<>>) => DerivedFrom(update["upload"].text)

\* The text generateAnswer resolved with in a streaming request: the return
\* value of generateAnswerStream, or of generateAnswerWithOllama after a
\* quota error.
ResolvedAnswer ==
    IF trace # <<>> /\ trace[Len(trace)].e = "ollamaReturned"
    THEN trace[Len(trace)].text
    ELSE IF streamPc \in {"done", "doneBatch"} THEN streamResult ELSE <<>>

\* The content written in chunk events so far.
ContentWritten ==
    { written[i].content : i \in { k \in 1..Len(written) : written[k].type = "chunk" } }

\* C35: a streaming request whose generation resolved with a non-empty
\* answer does not end with its done event while no content was passed to
\* onChunk.
ResolvedAnswerIsDelivered ==
    (/\ chatPc = "ended"
     /\ queryPc = "resolved"
     /\ ResolvedAnswer # <<>>) =>
        (ContentWritten \ {<<>>}) # {}

\* C36: when the stream failed and the one batch call made instead has
\* answered, the content passed to onChunk, taken together, is the answer
\* returned, once.
DegradedAnswerDeliveredOnce ==
    streamPc = "doneBatch" => Concat(delivered) = streamResult

\* C37: the outcome processQuery returns for a response of the remote
\* provider that passed the empty-response check, and on every path through
\* its catch block, has a non-empty answer.
OutcomeHasAnswer ==
    (/\ chatPc = "idle"
     /\ queryPc = "resolved"
     /\ ~thrown
     /\ outcome # NoOutcome
     /\ ~AnsweredByOllama) => outcome.answer # <<>>

\* The wrapped calls executing, each holding one slot.
Executing == { c \in Callers : pc[c] = "call" }

\* C38: a caller of retryWithBackoff holds no slot while it sleeps for a
\* backoff delay.  The step that starts the delay gives the slot back, the
\* slots taken during the delay are those of the calls executing, and the
\* step that ends the delay enters waitForSlot, which grants the slot only
\* when it is free.
BackoffHoldsNoSlot ==
    [][\A c \in Callers :
          /\ (pc[c] = "call" /\ pc'[c] = "backoff") =>
                 /\ activeRequests > 0
                 /\ activeRequests' = activeRequests - 1
          /\ pc'[c] = "backoff" => activeRequests' = Cardinality(Executing')
          /\ (pc[c] = "backoff" /\ pc'[c] # "backoff") =>
                 /\ now >= wake[c]
                 /\ pc'[c] \in {"poll", "space", "call"}
                 /\ pc'[c] = "call" =>
                        /\ activeRequests < MAX_CONCURRENT_REQUESTS
                        /\ activeRequests' = activeRequests + 1
                 /\ pc'[c] # "call" => activeRequests' = activeRequests]_vars

\* C38, witness: while one caller sleeps for its backoff delay, another has
\* been granted the slot after that delay began and is executing its call.
GrantedDuringBackoff ==
    \E c, d \in Callers :
        /\ pc[c] = "backoff"
        /\ now < wake[c]
        /\ pc[d] = "call"
        /\ lastRequestTime > wake[c] - BackoffDelay(options[c], attempt[c])
        /\ activeRequests = 1

(***************************************************************************)
(* The request gate with time that never ends.  waitForSlot and            *)
(* retryWithBackoff read the clock only to compare it with lastRequestTime *)
(* and to set timers, so the gate behaves the same when, instead of the    *)
(* clock moving on, every time it has recorded moves back by as much;      *)
(* a lastRequestTime of MIN_REQUEST_INTERVAL ago or earlier is as good as  *)
(* MIN_REQUEST_INTERVAL ago.  The states are then finitely many, and a     *)
(* behaviour can go on for ever as the server does.                        *)
(***************************************************************************)
Sleeping(c) == pc[c] \in {"poll", "space", "backoff"}

\* Time passes by one polling interval, the shortest sleep of the gate.  The
\* callback of a timer that is due runs before the clock moves on.
Elapse ==
    /\ \A c \in Callers : Sleeping(c) => wake[c] > now
    /\ lastRequestTime' = Max(lastRequestTime - PollInterval, now - MIN_REQUEST_INTERVAL)
    /\ prevGrantTime' = Max(prevGrantTime - PollInterval, now - MIN_REQUEST_INTERVAL)
    /\ wake' = [c \in Callers |-> IF Sleeping(c) THEN wake[c] - PollInterval ELSE wake[c]]
    /\ UNCHANGED <<now, activeRequests, pc, attempt, options, result, calls, grantCount>>
    /\ UNCHANGED nonGateVars

NextGateFair ==
    \/ Elapse
    \/ \E c \in Callers :
         \/ Call(c)
         \/ PollWake(c)
         \/ SpaceWake(c)
         \/ CallSucceeds(c)
         \/ CallFails(c)
         \/ BackoffWake(c)
         \/ Return(c)

\* What the event loop and the claim's premise give: time passes, the
\* callback of every timer that is due runs (the sleeps of waitForSlot and
\* of the backoff), and every wrapped call that was granted the slot
\* completes, by a result or by an error.
FairGate ==
    /\ WF_vars(Elapse)
    /\ \A c \in Callers :
         /\ WF_vars(PollWake(c))
         /\ WF_vars(SpaceWake(c))
         /\ WF_vars(BackoffWake(c))
         /\ WF_vars(CallSucceeds(c) \/ CallFails(c))

SpecGateFair == InitGate /\ [][NextGateFair]_vars /\ FairGate

\* C39: with every granted call completing and every due timer firing, a
\* caller waiting in waitForSlot, polling for the slot or sleeping for the
\* spacing, is eventually granted the slot.
WaitingCallerIsGranted ==
    \A c \in Callers : (pc[c] \in {"poll", "space"}) ~> (pc[c] = "call")

====
